---- MODULE Spec2Model ----
(***************************************************************************)
(* State-machine model of the mcp-crawler core: the crawl engine           *)
(* (crawler/crawl.ts), its redirect-following fetcher, the URL             *)
(* canonicalizer (utils/url.ts) and the network operations of the robots   *)
(* and sitemap helpers.                                                    *)
(*                                                                         *)
(* URL strings are modelled structurally so that normalisation, relative   *)
(* resolution and the extension test are computed, not assumed:            *)
(*   host  : sequence of dot-separated labels   <<"www","ex","com">>       *)
(*   path  : pathname.split("/").slice(1), each segment split on "."       *)
(*           "/"        = << <<"">> >>                                     *)
(*           "/a/"      = << <<"a">>, <<"">> >>                            *)
(*           "/doc.pdf" = << <<"doc","pdf">> >>                            *)
(*   query : sequence of parameter names, hash : fragment ("" = none)      *)
(***************************************************************************)
EXTENDS Integers, Sequences, FiniteSets, TLC

\* ------------------------------------------------------------------ bounds
MaxDepth == 3
MaxPages == 5
MaxConc == 2

\* ------------------------------------------------------- small utilities
Last(s) == s[Len(s)]
Front(s) == SubSeq(s, 1, Len(s) - 1)
Range(s) == {s[i] : i \in DOMAIN s}
Min(a, b) == IF a <= b THEN a ELSE b
Max(a, b) == IF a >= b THEN a ELSE b

RECURSIVE SelectSeqNoDup(_, _)
\* A JavaScript Set built by add() in order: first occurrences, in order.
SelectSeqNoDup(s, acc) ==
    IF s = <<>> THEN acc
    ELSE SelectSeqNoDup(Tail(s),
                        IF Head(s) \in Range(acc) THEN acc ELSE Append(acc, Head(s)))

\* ------------------------------------------------------------ URL strings
Url(host, path) == [host |-> host, path |-> path, query |-> <<>>, hash |-> ""]
UrlQ(host, path, query, hash) ==
    [host |-> host, path |-> path, query |-> query, hash |-> hash]

Root == << <<"">> >>
P(name) == << <<name>> >>
PSlash(name) == << <<name>>, <<"">> >>
PFile(name, ext) == << <<name, ext>> >>

\* String.prototype.toLowerCase on the labels the model uses.
Lower(s) == CASE s = "EX" -> "ex" [] s = "WWW" -> "www" [] s = "COM" -> "com"
              [] s = "PDF" -> "pdf" [] s = "NOINDEX" -> "noindex"
              [] s = "NoFollow" -> "nofollow" [] s = "TAR" -> "tar"
              [] s = "GZ" -> "gz" [] OTHER -> s
LowerSeq(q) == [i \in DOMAIN q |-> Lower(q[i])]

\* new URL(s) throws on a string without a host.
IsValidUrl(s) == s.host # <<>>
\* new URL(s): the WHATWG parser lower-cases the host; toString() prints it back.
ParseURL(s) == [s EXCEPT !.host = LowerSeq(s.host)]

\* An href / Location value: absolute, path-absolute ("/a"), or unparseable.
HAbs(u) == [kind |-> "abs", url |-> u]
HRel(path) == [kind |-> "path", url |-> Url(<<>>, path)]
HRelQ(path, query, hash) == [kind |-> "path", url |-> UrlQ(<<>>, path, query, hash)]
HBad == [kind |-> "bad", url |-> Url(<<>>, Root)]

\* new URL(href, base) succeeds
CanResolve(href, base) ==
    /\ href.kind # "bad"
    /\ href.kind = "abs" => IsValidUrl(href.url)
    /\ href.kind = "path" => IsValidUrl(base)
\* new URL(href, base).toString()
Resolve(href, base) ==
    IF href.kind = "abs" THEN ParseURL(href.url)
    ELSE [ParseURL(base) EXCEPT !.path = href.url.path,
                                !.query = href.url.query,
                                !.hash = href.url.hash]

TRACKING_PARAMS == {"utm_source", "utm_medium", "utm_campaign", "utm_term",
                    "utm_content", "gclid", "fbclid", "igshid", "mc_cid", "mc_eid"}

stripTrackingParams(u) ==
    [u EXCEPT !.query = SelectSeq(u.query, LAMBDA p : p \notin TRACKING_PARAMS)]

\* Code-unit order of the parameter names the model uses (searchParams.sort()).
ParamRank(p) == CASE p = "a" -> 1 [] p = "b" -> 2 [] p = "fbclid" -> 3
                  [] p = "id" -> 4 [] p = "utm_source" -> 5 [] OTHER -> 6

RECURSIVE InsertSorted(_, _)
InsertSorted(p, s) ==
    IF s = <<>> THEN <<p>>
    ELSE IF ParamRank(p) < ParamRank(Head(s)) THEN <<p>> \o s
    ELSE <<Head(s)>> \o InsertSorted(p, Tail(s))

RECURSIVE SortParams(_)
\* stable sort by name
SortParams(q) ==
    IF q = <<>> THEN <<>> ELSE InsertSorted(Last(q), SortParams(Front(q)))

\* /^index\.[a-z]+$/ on the last path component
IsDirectoryIndex(seg) == Len(seg) = 2 /\ seg[1] = "index" /\ seg[2] \in {"html", "php", "htm"}

removeDirectoryIndex(path) ==
    IF IsDirectoryIndex(Last(path)) THEN Front(path) \o << <<"">> >> ELSE path

removeTrailingSlash(path) ==
    IF Len(path) > 1 /\ Last(path) = <<"">> THEN Front(path) ELSE path

\* normalize-url with NORMALIZE_OPTS (its default removeQueryParameters drops
\* utm_*); it first collapses runs of "/" in the path: every empty segment
\* before the last one goes.
normalizeUrl(u) ==
    LET collapsed == SelectSeq(Front(u.path), LAMBDA seg : seg # <<"">>)
                     \o <<Last(u.path)>>
    IN
    [u EXCEPT !.path = removeTrailingSlash(removeDirectoryIndex(collapsed)),
              !.query = SortParams(SelectSeq(u.query, LAMBDA p : p # "utm_source"))]

normalizeForKey(urlStr) ==
    IF ~IsValidUrl(urlStr) THEN urlStr
    ELSE LET u == ParseURL(urlStr)
             u1 == [u EXCEPT !.host = LowerSeq(u.host), !.hash = ""]
             normalized == normalizeUrl(stripTrackingParams(u1))
             u2 == ParseURL(normalized)
         IN [u2 EXCEPT !.host = LowerSeq(u2.host)]

eTLD1(h) == IF Len(h) <= 2 THEN h ELSE SubSeq(h, Len(h) - 1, Len(h))

sameETLD1(a, b) == eTLD1(LowerSeq(a.host)) = eTLD1(LowerSeq(b.host))

isInternal(base, target, includeSubdomains) ==
    IF ~sameETLD1(base, target) THEN FALSE
    ELSE IF ~includeSubdomains THEN LowerSeq(base.host) = LowerSeq(target.host)
    ELSE TRUE

\* Ignore-list entries are split on "." like file names: "pdf" = <<"pdf">>,
\* ".pdf" = <<"","pdf">>, "tar.gz" = <<"tar","gz">>.
EndsWithParts(seg, a, b) ==
    Len(seg) >= 3 /\ seg[Len(seg) - 1] = a /\ seg[Len(seg)] = b

\* path.extname works on the last component of the path, every trailing "/"
\* skipped, from its last "." (none for ".name").
RECURSIVE Basename(_)
Basename(path) ==
    IF Len(path) > 1 /\ Last(path) = <<"">> THEN Basename(Front(path)) ELSE Last(path)
ExtName(path) ==
    LET b == Basename(path) IN
    IF Len(b) < 2 \/ (Len(b) = 2 /\ b[1] = "") THEN <<>> ELSE <<"", Last(b)>>

hasIgnoredExtension(u, ignoredExt) ==
    LET pathname == [i \in DOMAIN u.path |-> LowerSeq(u.path[i])]
        lastSeg == Last(pathname)
        ext == ExtName(pathname)
    IN IF /\ \/ EndsWithParts(lastSeg, "tar", "gz")
                \/ EndsWithParts(lastSeg, "tar", "bz2")
                \/ EndsWithParts(lastSeg, "tar", "xz")
          /\ \/ <<"tar", "gz">> \in ignoredExt
             \/ <<"tar", "bz2">> \in ignoredExt
             \/ <<"tar", "xz">> \in ignoredExt
       THEN TRUE
       ELSE IF ext = <<>> THEN FALSE
       ELSE Tail(ext) \in ignoredExt \/ ext \in ignoredExt

\* --------------------------------------------------------------- fetcher
BROWSER_UA == "Mozilla/5.0 Chrome/124"
BOT_UA == "mcp-crawler"

BLOCKED_STATUSES == {403, 406, 409, 410, 429, 451, 503}
REDIRECT_STATUSES == {301, 302, 303, 307, 308}
SAFETY == 10

\* What one fetchOnce settles with: a Response, or a rejection (network error,
\* abort by the timeout signal, unparseable URL).
Throw == [kind |-> "throw", status |-> 0, location |-> <<>>, contentType |-> "",
          hrefs |-> <<>>]
Res(status, contentType, location, hrefs) ==
    [kind |-> "res", status |-> status, location |-> location,
     contentType |-> contentType, hrefs |-> hrefs]
Html(status, hrefs) == Res(status, "text/html; charset=utf-8", <<>>, hrefs)
Redirect(status, loc) == Res(status, "", <<loc>>, <<>>)

ResOk(res) == res.status >= 200 /\ res.status <= 299
IncludesTextHtml(ct) == ct \in {"text/html", "text/html; charset=utf-8"}

\* chain(): the state of one redirect-following attempt. pc = "await" while a
\* fetchOnce for currentUrl is pending; requests counts the fetchOnce calls.
ChainBegin(initialUrl) ==
    [pc |-> "await", res |-> Throw, currentUrl |-> initialUrl, safety |-> SAFETY,
     hops |-> <<>>, requests |-> 1]

\* The pending fetchOnce settles with r; runs to the next await or to the return.
\* Variant of the redirect loop whose budget test is "safety-- >= 0": it
\* would follow an eleventh hop.
ChainAfterResponse_OffByOne(st, r) ==
    IF r.kind = "throw" THEN [st EXCEPT !.pc = "thrown"]
    ELSE IF r.status \in REDIRECT_STATUSES
    THEN IF st.safety >= 0
         THEN IF r.location = <<>>
              THEN [st EXCEPT !.res = r, !.safety = @ - 1, !.pc = "done"]
              ELSE IF ~CanResolve(r.location[1], st.currentUrl)
              THEN [st EXCEPT !.res = r, !.safety = @ - 1, !.pc = "thrown"]
              ELSE LET next == Resolve(r.location[1], st.currentUrl) IN
                   [st EXCEPT !.res = r, !.safety = @ - 1,
                              !.hops = Append(@, [from |-> st.currentUrl, to |-> next,
                                                  status |-> r.status]),
                              !.currentUrl = next,
                              !.requests = @ + 1]
         ELSE [st EXCEPT !.res = r, !.safety = @ - 1, !.pc = "done"]
    ELSE [st EXCEPT !.res = r, !.pc = "done"]

\* Variant that records a hop after moving on: its "from" is the next URL.
ChainAfterResponse_HopAfterMove(st, r) ==
    IF r.kind = "throw" THEN [st EXCEPT !.pc = "thrown"]
    ELSE IF r.status \in REDIRECT_STATUSES
    THEN IF st.safety > 0
         THEN IF r.location = <<>>
              THEN [st EXCEPT !.res = r, !.safety = @ - 1, !.pc = "done"]
              ELSE IF ~CanResolve(r.location[1], st.currentUrl)
              THEN [st EXCEPT !.res = r, !.safety = @ - 1, !.pc = "thrown"]
              ELSE LET next == Resolve(r.location[1], st.currentUrl) IN
                   [st EXCEPT !.res = r, !.safety = @ - 1,
                              !.hops = Append(@, [from |-> next, to |-> next,
                                                  status |-> r.status]),
                              !.currentUrl = next,
                              !.requests = @ + 1]
         ELSE [st EXCEPT !.res = r, !.safety = @ - 1, !.pc = "done"]
    ELSE [st EXCEPT !.res = r, !.pc = "done"]

ChainAfterResponse(st, r) ==
    IF r.kind = "throw" THEN [st EXCEPT !.pc = "thrown"]
    ELSE IF r.status \in REDIRECT_STATUSES
    THEN IF st.safety > 0
         THEN IF r.location = <<>>
              THEN [st EXCEPT !.res = r, !.safety = @ - 1, !.pc = "done"]
              ELSE IF ~CanResolve(r.location[1], st.currentUrl)
              THEN [st EXCEPT !.res = r, !.safety = @ - 1, !.pc = "thrown"]
              ELSE LET next == Resolve(r.location[1], st.currentUrl) IN
                   [st EXCEPT !.res = r, !.safety = @ - 1,
                              !.hops = Append(@, [from |-> st.currentUrl, to |-> next,
                                                  status |-> r.status]),
                              !.currentUrl = next,
                              !.requests = @ + 1]
         ELSE [st EXCEPT !.res = r, !.safety = @ - 1, !.pc = "done"]
    ELSE [st EXCEPT !.res = r, !.pc = "done"]

\* ------------------------------------------------------------ the origin
HostEx == <<"ex", "com">>
HostWww == <<"www", "ex", "com">>
HostOther == <<"other", "org">>

\* The site the crawl and the audit run against: what the server answers for
\* a URL. The fragment is never sent; "/a/" is served like "/a". /blocked
\* refuses every user agent but the browser's, /flaky drops their connections,
\* /down drops every connection. /out moved to another site, whose page links
\* back to /k.
Serve(u, ua) ==
    IF ~IsValidUrl(u) THEN Throw
    ELSE LET p == removeTrailingSlash(u.path) IN
    CASE u.host = HostEx /\ p = Root ->
           Html(200, <<HRel(P("a")), HRel(PSlash("a")), HRel(P("b")),
                       HAbs(Url(HostOther, P("x"))), HBad>>)
      [] u.host = HostEx /\ p = P("a") ->
           Html(200, <<HRel(P("d")), HRelQ(Root, <<"utm_source">>, ""), HRel(P("old"))>>)
      [] u.host = HostEx /\ p = P("b") ->
           Html(200, <<HRel(P("k")), HRel(PFile("doc", "pdf"))>>)
      [] u.host = HostEx /\ p = P("d") ->
           Html(200, <<HRelQ(P("k"), <<>>, "top"), HRel(P("d"))>>)
      [] u.host = HostEx /\ p = P("k") -> Html(200, <<HRel(P("out"))>>)
      [] u.host = HostEx /\ p = P("out") -> Redirect(302, HAbs(Url(HostOther, P("x"))))
      [] u.host = HostEx /\ p = P("old") -> Redirect(301, HRel(P("b")))
      [] u.host = HostEx /\ p = PFile("doc", "pdf") ->
           Res(200, "application/pdf", <<>>, <<>>)
      [] u.host = HostEx /\ p = P("blocked") ->
           IF ua = BROWSER_UA THEN Html(200, <<>>) ELSE Html(403, <<>>)
      [] u.host = HostEx /\ p = P("flaky") ->
           IF ua = BROWSER_UA THEN Html(200, <<>>) ELSE Throw
      [] u.host = HostEx /\ p = P("down") -> Throw
      [] u.host = HostEx /\ p = P("empty") -> Res(204, "text/html", <<>>, <<>>)
      [] u.host = HostWww /\ p = Root -> Redirect(301, HAbs(Url(HostEx, Root)))
      [] u.host = HostOther -> Html(200, <<HAbs(Url(HostEx, P("k")))>>)
      [] OTHER -> Html(404, <<>>)

UsedUA(fx) == IF fx.pc = "chain2" THEN BROWSER_UA ELSE fx.ua

\* fetchWithRedirects(url, ua) at its first await: the first attempt's first
\* fetchOnce is pending. pc: "chain1" | "chain2" | "returned" | "failed".
FetchBegin(url, ua) ==
    [pc |-> "chain1", url |-> url, ua |-> ua, chain |-> ChainBegin(url),
     r1 |-> ChainBegin(url), attempts |-> 1]

\* Variant of the retry policy in which a retry that throws after a blocked
\* first attempt fails the call instead of returning the blocked result.
FetchStep_RetryThrowFails(fx, r) ==
    LET c == ChainAfterResponse(fx.chain, r) IN
    IF c.pc = "await" THEN [fx EXCEPT !.chain = c]
    ELSE IF fx.pc = "chain1"
    THEN IF c.pc = "done"
         THEN IF c.res.status \in BLOCKED_STATUSES /\ fx.ua # BROWSER_UA
              THEN [fx EXCEPT !.pc = "chain2", !.r1 = c, !.chain = ChainBegin(fx.url),
                              !.attempts = 2]
              ELSE [fx EXCEPT !.pc = "returned", !.chain = c, !.r1 = c]
         ELSE IF fx.ua # BROWSER_UA
              THEN [fx EXCEPT !.pc = "chain2", !.r1 = c, !.chain = ChainBegin(fx.url),
                              !.attempts = 2]
              ELSE [fx EXCEPT !.pc = "failed", !.chain = c, !.r1 = c]
    ELSE IF c.pc = "done" THEN [fx EXCEPT !.pc = "returned", !.chain = c]
    ELSE [fx EXCEPT !.pc = "failed", !.chain = c]

\* Variant of the retry policy that retries a thrown first attempt whatever
\* the caller's user agent is.
FetchStep_AlwaysRetryThrow(fx, r) ==
    LET c == ChainAfterResponse(fx.chain, r) IN
    IF c.pc = "await" THEN [fx EXCEPT !.chain = c]
    ELSE IF fx.pc = "chain1"
    THEN IF c.pc = "done"
         THEN IF c.res.status \in BLOCKED_STATUSES /\ fx.ua # BROWSER_UA
              THEN [fx EXCEPT !.pc = "chain2", !.r1 = c, !.chain = ChainBegin(fx.url),
                              !.attempts = 2]
              ELSE [fx EXCEPT !.pc = "returned", !.chain = c, !.r1 = c]
         ELSE [fx EXCEPT !.pc = "chain2", !.r1 = c, !.chain = ChainBegin(fx.url),
                         !.attempts = 2]
    ELSE IF c.pc = "done" THEN [fx EXCEPT !.pc = "returned", !.chain = c]
    ELSE IF fx.r1.pc = "done" THEN [fx EXCEPT !.pc = "returned", !.chain = fx.r1]
    ELSE [fx EXCEPT !.pc = "failed", !.chain = c]

\* The pending fetchOnce of the running attempt settles with r: the attempt
\* goes on, or it ends and the try/catch around it returns, retries with
\* BROWSER_UA, or throws "fetch failed".
FetchStep(fx, r) ==
    LET c == ChainAfterResponse(fx.chain, r) IN
    IF c.pc = "await" THEN [fx EXCEPT !.chain = c]
    ELSE IF fx.pc = "chain1"
    THEN IF c.pc = "done"
         THEN IF c.res.status \in BLOCKED_STATUSES /\ fx.ua # BROWSER_UA
              THEN [fx EXCEPT !.pc = "chain2", !.r1 = c, !.chain = ChainBegin(fx.url),
                              !.attempts = 2]
              ELSE [fx EXCEPT !.pc = "returned", !.chain = c, !.r1 = c]
         ELSE IF fx.ua # BROWSER_UA
              THEN [fx EXCEPT !.pc = "chain2", !.r1 = c, !.chain = ChainBegin(fx.url),
                              !.attempts = 2]
              ELSE [fx EXCEPT !.pc = "failed", !.chain = c, !.r1 = c]
    ELSE IF c.pc = "done" THEN [fx EXCEPT !.pc = "returned", !.chain = c]
    ELSE IF fx.r1.pc = "done" THEN [fx EXCEPT !.pc = "returned", !.chain = fx.r1]
    ELSE [fx EXCEPT !.pc = "failed", !.chain = c]

RECURSIVE FetchRun(_)
\* The whole call against the site: every fetchOnce settles with the site's answer.
FetchRun(fx) ==
    IF fx.pc \in {"returned", "failed"} THEN fx
    ELSE FetchRun(FetchStep(fx, Serve(fx.chain.currentUrl, UsedUA(fx))))

\* What the caller of fetchWithRedirects gets: {res, finalUrl, redirectChain} or a throw.
FetchResult(fx) ==
    [kind |-> IF fx.pc = "returned" THEN "ok" ELSE "throw", res |-> fx.chain.res,
     finalUrl |-> fx.chain.currentUrl, redirectChain |-> fx.chain.hops]

fetchWithRedirects(url, ua) == FetchResult(FetchRun(FetchBegin(url, ua)))

\* ------------------------------------------------------------ crawl run
VARIABLES
    phase,          \* "start" | "loop" | "batch" | "post" | "done"
    cfg,            \* the request and the environment defaults of this run
    fromSitemaps,   \* Set<string> of normalized keys
    queue,          \* Array<{url, depth}>
    seen,           \* Set<string>
    inventoryMap,   \* Map<string, InventoryItem>
    edges,          \* Edge[]
    fetchedCount,
    tasks,          \* the visits of the current batch, in batch order
    inbound,        \* Set<string>, built after the BFS loop
    toFetch,        \* the keys the post-pass fetches
    postTasks,      \* post-pass callbacks: key -> "fetch" | "done"
    fetchLog,       \* history: logical fetches issued so far, per normalized key
    output,         \* the CrawlOutput once returned
    fetchCall,      \* one fetchWithRedirects call, stepped request by request
    lastRes,        \* history: the response the last fetchOnce of that call got
    net,            \* the network operations of one crawl or audit call
    audit,          \* one auditIndexability call: its tasks and its output
    sitemaps,       \* the sitemap collection of a crawl run, candidate by candidate
    proc,           \* the server process: the robots cache and the calls it served
    util            \* one use of the URL utilities: the input and what they returned

crawlVars == <<phase, cfg, fromSitemaps, queue, seen, inventoryMap, edges, fetchedCount,
               tasks, inbound, toFetch, postTasks, fetchLog, output>>
fetchVars == <<fetchCall, lastRes>>
vars == <<phase, cfg, fromSitemaps, queue, seen, inventoryMap, edges, fetchedCount,
          tasks, inbound, toFetch, postTasks, fetchLog, output, fetchCall, lastRes, net,
          audit, sitemaps, proc, util>>

SENTINEL_DEPTH == 9999

\* robots: the permissive stub, or a parsed robots.txt (Disallow: /d, Crawl-delay: 1)
RobotsStub == [disallow |-> {}, crawlDelay |-> 0]
RobotsParsed == [disallow |-> {P("d")}, crawlDelay |-> 1]

\* s.startsWith(p) on the labels of the model's paths
StartsWith(s, p) == s = p \/ p = "" \/ (p = "d" /\ s \in {"doc", "down"})

\* A Disallow rule matches a URL whose path string starts with the rule: the
\* segments before the rule's last are equal, and the rule's last segment is
\* a prefix of the path's segment at that place.
SegHasPrefix(seg, r) ==
    /\ Len(seg) >= Len(r)
    /\ \A i \in 1..(Len(r) - 1) : seg[i] = r[i]
    /\ StartsWith(seg[Len(r)], r[Len(r)])

PathHasPrefix(path, rule) ==
    /\ Len(path) >= Len(rule)
    /\ \A i \in 1..(Len(rule) - 1) : path[i] = rule[i]
    /\ SegHasPrefix(path[Len(rule)], rule[Len(rule)])

\* robots.isAllowed(url): parser.isAllowed(url, ua) ?? true. The parser has no
\* verdict (undefined) for a URL that is not of the robots.txt's origin.
RobotsIsAllowed(robots, url) ==
    \/ ParseURL(url).host # cfg.base.host
    \/ \A rule \in robots.disallow : ~PathHasPrefix(url.path, rule)

StartUrl == Url(HostEx, Root)

\* The URL lists the sitemaps of the origin may declare (before normalisation).
SitemapLists ==
    { {},
      {Url(HostEx, P("a")), Url(HostEx, PSlash("b"))},
      {UrlQ(<<"EX", "com">>, P("k"), <<>>, "top"), Url(HostEx, P("b")),
       Url(HostEx, P("orphan"))},
      {Url(HostEx, Root), Url(HostEx, P("orphan"))} }

\* The sitemap endpoints a run collects from: /sitemap.xml of the start host
\* and of its www / non-www counterpart, plus one declared by robots.txt when
\* robots are respected. Each contributes at most maxPages URLs.
SitemapCandidateCount(respectRobots) == IF respectRobots THEN 3 ELSE 2

IgnoreLists == { {}, {<<"pdf">>} }

\* www / non-www counterpart of the start host
Counterpart(host) ==
    IF Len(host) > 1 /\ host[1] = "www" THEN Tail(host) ELSE <<"www">> \o host

NoOutput == [returned |-> FALSE]

FetchIdle == [pc |-> "idle"]
NetIdle == [pc |-> "idle"]
AuditIdle == [pc |-> "idle"]
SmIdle == [pc |-> "idle"]
ProcIdle == [pc |-> "idle"]
UtilIdle == [pc |-> "idle"]

CrawlInit ==
    /\ phase = "start"
    /\ \E depth \in 0..MaxDepth, maxPages \in 0..MaxPages, conc \in 1..MaxConc,
          includeSub \in BOOLEAN, respectRobots \in BOOLEAN, ign \in IgnoreLists :
          cfg = [depthMax |-> depth, maxPages |-> maxPages, maxConcurrency |-> conc,
                 includeSub |-> includeSub, ua |-> BOT_UA,
                 respectRobots |-> respectRobots,
                 robots |-> IF respectRobots THEN RobotsParsed ELSE RobotsStub,
                 ignoredExt |-> ign,
                 base |-> ParseURL(StartUrl)]
    /\ \E sm \in SitemapLists :
          /\ Cardinality(sm) <= SitemapCandidateCount(cfg.respectRobots) * cfg.maxPages
          /\ fromSitemaps = {normalizeForKey(u) : u \in sm}
    /\ queue = << [url |-> ParseURL(StartUrl), depth |-> 0],
                  [url |-> Url(Counterpart(ParseURL(StartUrl).host),
                               ParseURL(StartUrl).path), depth |-> 0] >>
    /\ seen = {}
    /\ inventoryMap = <<>>
    /\ edges = <<>>
    /\ fetchedCount = 0
    /\ tasks = <<>>
    /\ inbound = {}
    /\ toFetch = {}
    /\ postTasks = <<>>
    /\ fetchLog = <<>>
    /\ output = NoOutput

Init ==
    /\ CrawlInit
    /\ fetchCall = FetchIdle /\ lastRes = Throw /\ net = NetIdle
    /\ audit = AuditIdle /\ sitemaps = SmIdle /\ proc = ProcIdle /\ util = UtilIdle

Placeholder(k) ==
    [url |-> k, normalizedUrl |-> k, finalUrl |-> k, status |-> 0, contentType |-> "",
     depth |-> SENTINEL_DEPTH, discoveredBy |-> "sitemap", redirectChain |-> <<>>]

\* One iteration of the pre-registration loop for key k.
PreRegisterOne(inv, k) ==
    IF k \notin DOMAIN inv
    THEN [x \in DOMAIN inv \cup {k} |-> IF x = k THEN Placeholder(k) ELSE inv[x]]
    ELSE [inv EXCEPT ![k].discoveredBy = IF @ = "html" THEN "both" ELSE "sitemap"]

RECURSIVE PreRegisterAll(_, _)
PreRegisterAll(inv, keys) ==
    IF keys = {} THEN inv
    ELSE LET k == CHOOSE x \in keys : TRUE IN
         PreRegisterAll(PreRegisterOne(inv, k), keys \ {k})

\* for (const k of fromSitemaps) { ... }, then the BFS loop is entered
PreRegister ==
    /\ phase = "start"
    /\ inventoryMap' = PreRegisterAll(inventoryMap, fromSitemaps)
    /\ phase' = "loop"
    /\ UNCHANGED <<cfg, fromSitemaps, queue, seen, edges, fetchedCount, tasks, inbound,
                   toFetch, postTasks, fetchLog, output>>
    /\ UNCHANGED <<fetchVars, net, audit, sitemaps, proc, util>>

\* failed: the visit ended in the catch of its fetch
Task(node, pc) ==
    [node |-> node, pc |-> pc, finalUrl |-> node.url, hrefs |-> <<>>, failed |-> FALSE]

\* visit(node) from its entry to its first await: "fetch" when fetchWithRedirects
\* was called, "done" when the visit returned early.
VisitEntry(node, seenNow) ==
    IF fetchedCount >= cfg.maxPages THEN "done"
    ELSE IF normalizeForKey(node.url) \in seenNow THEN "done"
    ELSE IF ~IsValidUrl(node.url) THEN "done"
    ELSE IF ~isInternal(cfg.base, ParseURL(node.url), cfg.includeSub) THEN "done"
    ELSE IF hasIgnoredExtension(ParseURL(node.url), cfg.ignoredExt) THEN "done"
    ELSE IF cfg.respectRobots /\ ~RobotsIsAllowed(cfg.robots, node.url) THEN "done"
    ELSE "fetch"

\* seen.add(key) happens unless the budget check or the seen check returned.
VisitMarks(node, seenNow) ==
    IF fetchedCount >= cfg.maxPages THEN seenNow
    ELSE seenNow \cup {normalizeForKey(node.url)}

RECURSIVE StartVisits_CheckThenMark(_, _, _)
\* Variant in which every visit of the batch tests the seen set as it was when
\* the batch started, and the keys are marked afterwards.
StartVisits_CheckThenMark(batch, seenNow, started) ==
    IF batch = <<>> THEN [seen |-> seenNow, tasks |-> started]
    ELSE LET rest == StartVisits_CheckThenMark(Tail(batch), seenNow,
                        Append(started, Task(Head(batch), VisitEntry(Head(batch), seenNow))))
         IN [seen |-> VisitMarks(Head(batch), rest.seen), tasks |-> rest.tasks]

RECURSIVE StartVisits(_, _, _)
\* The visits of a batch start in batch order, each running to its first await
\* before the next starts and before any pending fetch can settle.
StartVisits(batch, seenNow, started) ==
    IF batch = <<>> THEN [seen |-> seenNow, tasks |-> started]
    ELSE StartVisits(Tail(batch), VisitMarks(Head(batch), seenNow),
                     Append(started, Task(Head(batch), VisitEntry(Head(batch), seenNow))))

LogFetch(log, k) ==
    [x \in DOMAIN log \cup {k} |-> IF x \in DOMAIN log
                                    THEN (IF x = k THEN log[x] + 1 ELSE log[x])
                                    ELSE 1]

RECURSIVE LogFetches(_, _)
LogFetches(log, ts) ==
    IF ts = <<>> THEN log
    ELSE LogFetches(IF Head(ts).pc = "fetch"
                    THEN LogFetch(log, normalizeForKey(Head(ts).node.url))
                    ELSE log, Tail(ts))

\* Variant that takes the whole queue as one batch.
BatchSize_WholeQueue == Len(queue)
\* queue.splice(0, DEFAULTS.maxConcurrency)
BatchSize == Min(cfg.maxConcurrency, Len(queue))

\* while (queue.length && fetchedCount < maxPages) { batch = queue.splice(...);
\*   Promise.all(batch.map(node => limit(() => visit(node)))) ...
\* Variant of the loop test with || in place of &&.
LoopContinues_Or == queue # <<>> \/ fetchedCount < cfg.maxPages
\* while (queue.length && fetchedCount < maxPages)
LoopContinues == queue # <<>> /\ fetchedCount < cfg.maxPages

StartBatch ==
    /\ phase = "loop"
    /\ LoopContinues
    /\ LET batch == SubSeq(queue, 1, BatchSize)
           st == StartVisits(batch, seen, <<>>)
       IN /\ queue' = SubSeq(queue, BatchSize + 1, Len(queue))
          /\ seen' = st.seen
          /\ tasks' = st.tasks
          /\ fetchLog' = LogFetches(fetchLog, st.tasks)
    /\ phase' = "batch"
    /\ UNCHANGED <<cfg, fromSitemaps, inventoryMap, edges, fetchedCount, inbound,
                   toFetch, postTasks, output>>
    /\ UNCHANGED <<fetchVars, net, audit, sitemaps, proc, util>>

\* After the link loop: the crawl-delay wait, or the visit returns.
AfterVisit == IF cfg.robots.crawlDelay > 0 THEN "delay" ELSE "done"

\* Variant of the visit's item whose normalizedUrl is taken from the final
\* URL of the fetch instead of the visited key.
VisitItem_FinalUrlKey(node, key, r) ==
    [url |-> node.url, normalizedUrl |-> normalizeForKey(r.finalUrl), finalUrl |-> r.finalUrl,
     status |-> r.res.status, contentType |-> r.res.contentType, depth |-> node.depth,
     discoveredBy |-> IF key \in fromSitemaps \/ normalizeForKey(r.finalUrl) \in fromSitemaps
                      THEN "both" ELSE "html",
     redirectChain |-> r.redirectChain]

VisitItem(node, key, r) ==
    [url |-> node.url, normalizedUrl |-> key, finalUrl |-> r.finalUrl,
     status |-> r.res.status, contentType |-> r.res.contentType, depth |-> node.depth,
     discoveredBy |-> IF key \in fromSitemaps \/ normalizeForKey(r.finalUrl) \in fromSitemaps
                      THEN "both" ELSE "html",
     redirectChain |-> r.redirectChain]

\* {...prev, ...item, discoveredBy: ...}: every field of item overrides prev.
MergeItem(prev, item) ==
    [item EXCEPT !.discoveredBy =
        IF prev.discoveredBy = "sitemap" \/ item.discoveredBy = "both"
        THEN "both" ELSE item.discoveredBy]

RecordItem(inv, key, item) ==
    IF key \in DOMAIN inv
    THEN [inv EXCEPT ![key] = MergeItem(inv[key], item)]
    ELSE [x \in DOMAIN inv \cup {key} |-> IF x = key THEN item ELSE inv[x]]

\* fetchWithRedirects resolved for task i: count, record, then await res.text()
\* for an ok HTML response, else go on to the crawl-delay check.
FetchDone(i) ==
    /\ phase = "batch"
    /\ i \in DOMAIN tasks
    /\ tasks[i].pc = "fetch"
    /\ LET node == tasks[i].node
           key == normalizeForKey(node.url)
           r == fetchWithRedirects(node.url, cfg.ua)
       IN /\ r.kind = "ok"
          /\ fetchedCount' = fetchedCount + 1
          /\ inventoryMap' = RecordItem(inventoryMap, key, VisitItem(node, key, r))
          /\ tasks' = IF ResOk(r.res) /\ IncludesTextHtml(r.res.contentType)
                      THEN [tasks EXCEPT ![i].pc = "text", ![i].finalUrl = r.finalUrl,
                                         ![i].hrefs = r.res.hrefs]
                      ELSE [tasks EXCEPT ![i].pc = AfterVisit]
    /\ UNCHANGED <<phase, cfg, fromSitemaps, queue, seen, edges, inbound, toFetch,
                   postTasks, fetchLog, output>>
    /\ UNCHANGED <<fetchVars, net, audit, sitemaps, proc, util>>

\* Variant whose catch counts the node as fetched.
FetchFail_Counted(i) ==
    /\ phase = "batch"
    /\ i \in DOMAIN tasks
    /\ tasks[i].pc = "fetch"
    /\ tasks' = [tasks EXCEPT ![i].pc = "done", ![i].failed = TRUE]
    /\ fetchedCount' = fetchedCount + 1
    /\ UNCHANGED <<phase, cfg, fromSitemaps, queue, seen, inventoryMap, edges,
                   inbound, toFetch, postTasks, fetchLog, output>>
    /\ UNCHANGED <<fetchVars, net, audit, sitemaps, proc, util>>

\* fetchWithRedirects rejected (network error or timeout on both attempts).
FetchFail(i) ==
    /\ phase = "batch"
    /\ i \in DOMAIN tasks
    /\ tasks[i].pc = "fetch"
    /\ tasks' = [tasks EXCEPT ![i].pc = "done", ![i].failed = TRUE]
    /\ UNCHANGED <<phase, cfg, fromSitemaps, queue, seen, inventoryMap, edges,
                   fetchedCount, inbound, toFetch, postTasks, fetchLog, output>>
    /\ UNCHANGED <<fetchVars, net, audit, sitemaps, proc, util>>

absolutize(base, href) ==
    IF CanResolve(href, base) THEN <<Resolve(href, base)>> ELSE <<>>

RECURSIVE CollectHrefs(_, _)
\* $("a[href]").each(...): the absolute URLs of the anchors, as a Set in document order
CollectHrefs(anchors, finalUrl) ==
    IF anchors = <<>> THEN <<>>
    ELSE absolutize(ParseURL(finalUrl), Head(anchors)) \o CollectHrefs(Tail(anchors), finalUrl)

\* Variant of the enqueue test that also enqueues from a node at the max depth.
EnqueueAllowed_Inclusive(toKey, node) == toKey \notin seen /\ node.depth <= cfg.depthMax

EnqueueAllowed(toKey, node) == toKey \notin seen /\ node.depth < cfg.depthMax

RECURSIVE LinkLoop(_, _, _, _)
\* for (const toAbs of hrefs) { ... edges.push ... queue.push ... }
LinkLoop(hrefs, node, finalUrl, acc) ==
    IF hrefs = <<>> THEN acc
    ELSE LET toAbs == Head(hrefs)
             toKey == normalizeForKey(toAbs)
             skip == \/ ~isInternal(cfg.base, ParseURL(toAbs), cfg.includeSub)
                     \/ hasIgnoredExtension(ParseURL(toAbs), cfg.ignoredExt)
             acc1 == IF skip THEN acc
                     ELSE [edges |-> Append(acc.edges,
                                            [from |-> normalizeForKey(finalUrl), to |-> toKey]),
                           queue |-> IF EnqueueAllowed(toKey, node)
                                     THEN Append(acc.queue,
                                                 [url |-> toAbs, depth |-> node.depth + 1])
                                     ELSE acc.queue]
         IN LinkLoop(Tail(hrefs), node, finalUrl, acc1)

\* res.text() settled for task i (a rejected body read leaves html empty):
\* parse the anchors, record the edges, enqueue the targets.
TextDone(i) ==
    /\ phase = "batch"
    /\ i \in DOMAIN tasks
    /\ tasks[i].pc = "text"
    /\ \E bodyOk \in BOOLEAN :
         LET t == tasks[i]
             hrefs == IF bodyOk
                      THEN SelectSeqNoDup(CollectHrefs(t.hrefs, t.finalUrl), <<>>)
                      ELSE <<>>
             r == LinkLoop(hrefs, t.node, t.finalUrl, [edges |-> edges, queue |-> queue])
         IN /\ edges' = r.edges
            /\ queue' = r.queue
    /\ tasks' = [tasks EXCEPT ![i].pc = AfterVisit, ![i].hrefs = <<>>]
    /\ UNCHANGED <<phase, cfg, fromSitemaps, seen, inventoryMap, fetchedCount, inbound,
                   toFetch, postTasks, fetchLog, output>>
    /\ UNCHANGED <<fetchVars, net, audit, sitemaps, proc, util>>

\* await wait(s * 1000) elapsed
DelayDone(i) ==
    /\ phase = "batch"
    /\ i \in DOMAIN tasks
    /\ tasks[i].pc = "delay"
    /\ tasks' = [tasks EXCEPT ![i].pc = "done"]
    /\ UNCHANGED <<phase, cfg, fromSitemaps, queue, seen, inventoryMap, edges,
                   fetchedCount, inbound, toFetch, postTasks, fetchLog, output>>
    /\ UNCHANGED <<fetchVars, net, audit, sitemaps, proc, util>>

\* Promise.all of the batch resolved: back to the loop condition
BatchDone ==
    /\ phase = "batch"
    /\ \A i \in DOMAIN tasks : tasks[i].pc = "done"
    /\ tasks' = <<>>
    /\ phase' = "loop"
    /\ UNCHANGED <<cfg, fromSitemaps, queue, seen, inventoryMap, edges, fetchedCount,
                   inbound, toFetch, postTasks, fetchLog, output>>
    /\ UNCHANGED <<fetchVars, net, audit, sitemaps, proc, util>>

\* Variant of the inbound set built from the edge sources.
InboundOf_Sources(es) == {es[i].from : i \in DOMAIN es}

InboundOf(es) == {es[i].to : i \in DOMAIN es}

\* Variant of the candidate filter that does not require status 0.
Candidates_AnyStatus(inb) ==
    {k \in fromSitemaps : k \in inb /\ k \in DOMAIN inventoryMap}

Candidates(inb) ==
    {k \in fromSitemaps : k \in inb /\ k \in DOMAIN inventoryMap /\ inventoryMap[k].status = 0}

Room == Max(0, cfg.maxPages - fetchedCount)

\* candidates.slice(0, room): the first room candidates in the Set's insertion
\* order, which is the order the sitemaps listed them in (any order).
Slices(cands, room) ==
    {s \in SUBSET cands : Cardinality(s) = Min(room, Cardinality(cands))}

RECURSIVE LogKeys(_, _)
LogKeys(log, keys) ==
    IF keys = {} THEN log
    ELSE LET k == CHOOSE x \in keys : TRUE IN LogKeys(LogFetch(log, k), keys \ {k})

\* The loop ended: inbound, candidates, room, toFetch, and every post-pass
\* callback runs to its await of fetchWithRedirects.
PostStart ==
    /\ phase = "loop"
    /\ ~LoopContinues
    /\ inbound' = InboundOf(edges)
    /\ \E s \in Slices(Candidates(InboundOf(edges)), Room) :
          /\ toFetch' = s
          /\ postTasks' = [k \in s |-> "fetch"]
          /\ fetchLog' = LogKeys(fetchLog, s)
    /\ phase' = "post"
    /\ UNCHANGED <<cfg, fromSitemaps, queue, seen, inventoryMap, edges, fetchedCount,
                   tasks, output>>
    /\ UNCHANGED <<fetchVars, net, audit, sitemaps, proc, util>>

\* Variant of the post-pass update that marks the item as found by HTML only.
PostUpdate_Html(prev, r) ==
    [prev EXCEPT !.finalUrl = r.finalUrl, !.status = r.res.status,
                 !.contentType = r.res.contentType,
                 !.depth = Min(prev.depth, cfg.depthMax + 1),
                 !.discoveredBy = "html",
                 !.redirectChain = r.redirectChain]

\* Variant of the post-pass update that leaves the depth as it was.
PostUpdate_KeepDepth(prev, r) ==
    [prev EXCEPT !.finalUrl = r.finalUrl, !.status = r.res.status,
                 !.contentType = r.res.contentType,
                 !.discoveredBy = "both",
                 !.redirectChain = r.redirectChain]

PostUpdate(prev, r) ==
    [prev EXCEPT !.finalUrl = r.finalUrl, !.status = r.res.status,
                 !.contentType = r.res.contentType,
                 !.depth = Min(prev.depth, cfg.depthMax + 1),
                 !.discoveredBy = "both",
                 !.redirectChain = r.redirectChain]

PostFetchDone(k) ==
    /\ phase = "post"
    /\ k \in DOMAIN postTasks
    /\ postTasks[k] = "fetch"
    /\ LET r == fetchWithRedirects(k, cfg.ua) IN
          /\ r.kind = "ok"
          /\ inventoryMap' = [inventoryMap EXCEPT ![k] = PostUpdate(inventoryMap[k], r)]
    /\ fetchedCount' = fetchedCount + 1
    /\ postTasks' = [postTasks EXCEPT ![k] = "done"]
    /\ UNCHANGED <<phase, cfg, fromSitemaps, queue, seen, edges, tasks, inbound, toFetch,
                   fetchLog, output>>
    /\ UNCHANGED <<fetchVars, net, audit, sitemaps, proc, util>>

\* Variant whose catch counts the failed post-pass fetch.
PostFetchFail_Counted(k) ==
    /\ phase = "post"
    /\ k \in DOMAIN postTasks
    /\ postTasks[k] = "fetch"
    /\ postTasks' = [postTasks EXCEPT ![k] = "done"]
    /\ fetchedCount' = fetchedCount + 1
    /\ UNCHANGED <<phase, cfg, fromSitemaps, queue, seen, inventoryMap, edges,
                   tasks, inbound, toFetch, fetchLog, output>>
    /\ UNCHANGED <<fetchVars, net, audit, sitemaps, proc, util>>

PostFetchFail(k) ==
    /\ phase = "post"
    /\ k \in DOMAIN postTasks
    /\ postTasks[k] = "fetch"
    /\ postTasks' = [postTasks EXCEPT ![k] = "done"]
    /\ UNCHANGED <<phase, cfg, fromSitemaps, queue, seen, inventoryMap, edges,
                   fetchedCount, tasks, inbound, toFetch, fetchLog, output>>
    /\ UNCHANGED <<fetchVars, net, audit, sitemaps, proc, util>>

Bucket(status) ==
    CASE status = 0 -> "0xx"
      [] status >= 200 /\ status < 300 -> "2xx"
      [] status >= 300 /\ status < 400 -> "3xx"
      [] status >= 400 /\ status < 500 -> "4xx"
      [] status >= 500 /\ status < 600 -> "5xx"
      [] OTHER -> "none"

CrawlOutput ==
    [returned |-> TRUE,
     inventory |-> inventoryMap,
     edges |-> edges,
     stats |-> [pagesFetched |-> fetchedCount,
                pagesFromSitemap |-> Cardinality(fromSitemaps),
                pagesFromHtml |-> Cardinality({k \in DOMAIN inventoryMap :
                                    inventoryMap[k].discoveredBy \in {"html", "both"}})],
     reports |-> [orphansInSitemap |-> {k \in fromSitemaps : k \notin inbound},
                  linkedNotInSitemap |-> {k \in inbound : k \notin fromSitemaps},
                  statusBuckets |-> [b \in {"0xx", "2xx", "3xx", "4xx", "5xx"} |->
                      Cardinality({k \in DOMAIN inventoryMap :
                                      Bucket(inventoryMap[k].status) = b})]]]

\* Promise.all of the post-pass resolved: derive the reports and return.
Finish ==
    /\ phase = "post"
    /\ \A k \in DOMAIN postTasks : postTasks[k] = "done"
    /\ output' = CrawlOutput
    /\ phase' = "done"
    /\ UNCHANGED <<cfg, fromSitemaps, queue, seen, inventoryMap, edges, fetchedCount,
                   tasks, inbound, toFetch, postTasks, fetchLog>>
    /\ UNCHANGED <<fetchVars, net, audit, sitemaps, proc, util>>

Next ==
    \/ PreRegister
    \/ StartBatch
    \/ \E i \in 1..MaxConc : FetchDone(i)
    \/ \E i \in 1..MaxConc : FetchFail(i)
    \/ \E i \in 1..MaxConc : TextDone(i)
    \/ \E i \in 1..MaxConc : DelayDone(i)
    \/ BatchDone
    \/ PostStart
    \/ \E k \in fromSitemaps : PostFetchDone(k)
    \/ \E k \in fromSitemaps : PostFetchFail(k)
    \/ Finish

Spec == Init /\ [][Next]_vars

\* The run under the assumption that whatever is pending eventually settles:
\* every fetch completes or fails, every body read and delay ends.
\* Weak fairness of the steps of the loop, written with the condition under
\* which each is enabled: a batch starts while the loop test holds, a visit
\* that has not returned has a pending fetch, body read or delay that settles,
\* and the loop goes on once every visit of the batch returned.
Settles(i) == FetchDone(i) \/ FetchFail(i) \/ TextDone(i) \/ DelayDone(i)
PendingVisit(i) == phase = "batch" /\ i \in DOMAIN tasks /\ tasks[i].pc # "done"
LoopFairness ==
    /\ WF_vars(PreRegister)
    /\ ([]<>~(phase = "loop" /\ LoopContinues) \/ []<><<StartBatch>>_vars)
    /\ \A i \in 1..MaxConc : ([]<>~PendingVisit(i) \/ []<><<Settles(i)>>_vars)
    /\ ([]<>~(phase = "batch" /\ \A i \in DOMAIN tasks : tasks[i].pc = "done")
          \/ []<><<BatchDone>>_vars)
    /\ WF_vars(PostStart)
SpecLive == Init /\ [][Next]_vars /\ LoopFairness


\* ------------------------------------------- one fetchWithRedirects call
CrawlIdle ==
    /\ phase = "idle"
    /\ cfg = <<>>
    /\ fromSitemaps = {}
    /\ queue = <<>>
    /\ seen = {}
    /\ inventoryMap = <<>>
    /\ edges = <<>>
    /\ fetchedCount = 0
    /\ tasks = <<>>
    /\ inbound = {}
    /\ toFetch = {}
    /\ postTasks = <<>>
    /\ fetchLog = <<>>
    /\ output = NoOutput

\* What a server may answer to one request for url: 200, a blocked status, a
\* redirect to the other page (with and without Location, and with a
\* Location that does not parse); or the request is rejected.
OtherPath(url) == IF url.path = P("a") THEN P("b") ELSE P("a")
RedirectStatusAt(url) == IF url.path = P("a") THEN 301 ELSE 308
FetchResponses(url) ==
    { Html(200, <<>>), Html(403, <<>>),
      Redirect(RedirectStatusAt(url), HRel(OtherPath(url))),
      Res(RedirectStatusAt(url), "", <<>>, <<>>),
      Redirect(302, HBad) }

FetchInit ==
    /\ CrawlIdle
    /\ net = NetIdle
    /\ lastRes = Throw
    /\ audit = AuditIdle /\ sitemaps = SmIdle /\ proc = ProcIdle /\ util = UtilIdle
    /\ \E ua \in {BOT_UA, BROWSER_UA} : fetchCall = FetchBegin(Url(HostEx, P("a")), ua)

\* The pending fetchOnce resolved with a Response.
FetchOnceResolves ==
    /\ fetchCall.pc \in {"chain1", "chain2"}
    /\ \E r \in FetchResponses(fetchCall.chain.currentUrl) :
          /\ fetchCall' = FetchStep(fetchCall, r)
          /\ lastRes' = r
    /\ UNCHANGED <<crawlVars, net, audit, sitemaps, proc, util>>

\* The pending fetchOnce rejected (network error, or abort by the timeout).
FetchOnceRejects ==
    /\ fetchCall.pc \in {"chain1", "chain2"}
    /\ fetchCall' = FetchStep(fetchCall, Throw)
    /\ lastRes' = Throw
    /\ UNCHANGED <<crawlVars, net, audit, sitemaps, proc, util>>

FetchNext == FetchOnceResolves \/ FetchOnceRejects

SpecFetch == FetchInit /\ [][FetchNext]_vars

\* ------------------------- the network operations of a crawl / audit call
MaxNetPages == 3
MaxNetHops == 1
MaxNetKids == 1

\* The operations wrapped in the per-request deadline: fetchOnce passes
\* signal: abortSignal(timeoutMs), which also aborts the read of its body.
\* getRobotsAgent, fetchText and the auditor's fetch pass no signal.
HasDeadline(op) == op \in {"fetchOnce", "fetchOnce.text"}

\* The read of the body of a response, where the code reads it.
BodyOf(op) ==
    CASE op = "getRobotsAgent.fetch" -> "getRobotsAgent.text"
      [] op = "fetchText.fetch" -> "fetchText.text"
      [] op = "fetchOnce" -> "fetchOnce.text"
      [] op = "audit.fetch" -> "audit.text"
      [] OTHER -> "none"

\* A request the call is about to start. chain: 1 for the chain with the
\* requested user agent, 2 for the retry with BROWSER_UA; hops: the redirects
\* followed so far in the chain; reads: the caller reads the body of a final
\* response (visit does, for an ok text/html response; the post-pass never).
NetReq(op, reads) == [op |-> op, chain |-> 1, hops |-> 0, reads |-> reads]

\* n requests of the same kind, started together
NetReqs(op, reads, n) == [i \in 1..n |-> NetReq(op, reads)]

\* What a response can be, for the code that awaits it: "final" (its body is
\* read), "nobody" (final, body not read: sitemap not ok, page not ok or not
\* text/html, audit answer not text/html, every post-pass answer), "redirect"
\* (3xx with a location: the next hop is requested), "blocked" (a status of
\* BLOCKED_STATUSES).
AnswerKinds(req) ==
    CASE req.op = "getRobotsAgent.fetch" -> {"final"}
      [] req.op = "fetchText.fetch" -> {"final", "nobody"}
      [] req.op = "fetchOnce" ->
            (IF req.reads THEN {"final"} ELSE {}) \cup {"nobody", "blocked"}
            \cup (IF req.hops < MaxNetHops THEN {"redirect"} ELSE {})
      [] req.op = "audit.fetch" ->
            {"final", "nobody"} \cup (IF req.hops < MaxNetHops THEN {"redirect"} ELSE {})
      [] OTHER -> {"read"}

NetInit ==
    /\ CrawlIdle
    /\ fetchCall = FetchIdle
    /\ lastRes = Throw
    /\ audit = AuditIdle /\ sitemaps = SmIdle /\ proc = ProcIdle /\ util = UtilIdle
    /\ \E call \in {"crawl", "audit"}, rr \in BOOLEAN, bot \in BOOLEAN,
          n \in 1..MaxNetPages, conc \in 1..MaxConc,
          cached \in BOOLEAN, declared \in {0, 1} :
          \* fetches: getRobotsAgent misses its cache and requests robots.txt;
          \* otherwise the agent is at hand (robots not respected: allow-all
          \* without sitemaps; cache hit: the cached agent, which may declare
          \* a sitemap) and the first sitemap candidate is requested.
          LET fetches == call = "crawl" /\ rr /\ ~cached
              first == IF call = "audit" THEN NetReqs("audit.fetch", TRUE, Min(conc, n))
                       ELSE IF fetches THEN <<NetReq("getRobotsAgent.fetch", TRUE)>>
                       ELSE <<NetReq("fetchText.fetch", TRUE)>>
          IN net = [pc |-> "running", call |-> call,
                    phase |-> IF call = "audit" THEN "audit"
                              ELSE IF fetches THEN "robots" ELSE "sitemaps",
                    botUA |-> (call = "crawl" /\ bot), conc |-> conc,
                    budget |-> IF call = "audit" THEN n - Min(conc, n) ELSE n,
                    sm |-> IF call = "audit" \/ fetches THEN 0
                           ELSE IF rr THEN 1 + declared ELSE 1,
                    kids |-> 0,
                    starting |-> first, pending |-> <<>>,
                    issued |-> 0, ended |-> 0]

ServerModes == {"answers", "rejects", "silent"}

\* pending without request id
NetDrop(pending, id) == [j \in DOMAIN pending \ {id} |-> pending[j]]

\* After the BFS batch (or the last sitemap candidate) settled: the next batch
\* of at most maxConcurrency visits that reach their fetch, or, after a batch,
\* the post-pass, whose fetches start together whatever the concurrency
\* limit, or the end of the run.
NextBatch(n0) ==
    {[n0 EXCEPT !.phase = "bfs", !.budget = @ - k,
                !.starting = NetReqs("fetchOnce", TRUE, k)] :
        k \in 1..Min(n0.conc, n0.budget)}
    \cup (IF n0.phase = "bfs"
          THEN {[n0 EXCEPT !.phase = "post", !.budget = @ - m,
                           !.starting = NetReqs("fetchOnce", FALSE, m)] :
                   m \in 1..n0.budget}
          ELSE {})
    \cup {[n0 EXCEPT !.phase = "done"]}

\* The states of the call after one of its awaited tasks settled; n0 is the
\* call without the task's request, read tells that a body was read.
NetEnded(n0, read) ==
    CASE n0.phase = "robots" ->
            {[n0 EXCEPT !.phase = "sitemaps", !.sm = 1 + declared,
                        !.starting = <<NetReq("fetchText.fetch", TRUE)>>] :
                declared \in IF read THEN {0, 1} ELSE {0}}
      [] n0.phase = "sitemaps" ->
            (IF read /\ n0.kids < MaxNetKids
             THEN {[n0 EXCEPT !.kids = @ + 1,
                              !.starting = <<NetReq("fetchText.fetch", TRUE)>>]}
             ELSE {})
            \cup (IF n0.sm > 0
                  THEN {[n0 EXCEPT !.sm = @ - 1,
                                   !.starting = <<NetReq("fetchText.fetch", TRUE)>>]}
                  ELSE NextBatch(n0))
      [] n0.phase = "bfs" ->
            IF DOMAIN n0.pending = {} THEN NextBatch(n0) ELSE {n0}
      [] n0.phase = "post" ->
            IF DOMAIN n0.pending = {} THEN {[n0 EXCEPT !.phase = "done"]} ELSE {n0}
      [] OTHER ->
            IF n0.budget > 0
            THEN {[n0 EXCEPT !.budget = @ - 1,
                             !.starting = <<NetReq("audit.fetch", TRUE)>>]}
            ELSE IF DOMAIN n0.pending = {} THEN {[n0 EXCEPT !.phase = "done"]}
            ELSE {n0}

\* fetchWithRedirects after its chain threw or was answered with a blocked
\* status: one retry with BROWSER_UA when the first chain used another agent.
NetRetries(req) == req.op = "fetchOnce" /\ req.chain = 1 /\ net.botUA

\* The call starts the next of the requests it starts before it awaits again;
\* the contacted server will answer, refuse, or accept the connection and
\* never respond.
NetIssue ==
    /\ net.pc = "running" /\ net.starting # <<>>
    /\ \E srv \in ServerModes :
          LET id == net.issued + 1
              req == Head(net.starting) @@
                     [server |-> srv, deadline |-> HasDeadline(Head(net.starting).op)]
          IN net' = [net EXCEPT !.starting = Tail(@), !.issued = id,
                                !.pending = [j \in DOMAIN net.pending \cup {id} |->
                                                IF j = id THEN req ELSE net.pending[j]]]
    /\ UNCHANGED <<crawlVars, fetchVars, audit, sitemaps, proc, util>>

\* A pending operation resolved: the body of a final response is read where
\* the code reads it, a redirect or a blocked first chain starts the next
\* request of the task, anything else ends the task.
NetAnswer(id) ==
    /\ net.pc = "running" /\ net.starting = <<>>
    /\ id \in DOMAIN net.pending /\ net.pending[id].server = "answers"
    /\ LET req == net.pending[id]
           n0 == [net EXCEPT !.pending = NetDrop(net.pending, id), !.ended = @ + 1]
           again(chain, hops) ==
               [n0 EXCEPT !.starting = <<[op |-> req.op, chain |-> chain,
                                          hops |-> hops, reads |-> req.reads]>>]
       IN \E kind \in AnswerKinds(req) :
             CASE kind = "final" ->
                     \E srv \in ServerModes :
                        net' = [net EXCEPT !.pending[id] =
                                              [req EXCEPT !.op = BodyOf(req.op),
                                                          !.server = srv],
                                           !.ended = @ + 1]
               [] kind = "redirect" -> net' = again(req.chain, req.hops + 1)
               [] kind = "blocked" /\ NetRetries(req) -> net' = again(2, 0)
               [] OTHER -> net' \in NetEnded(n0, kind = "read")
    /\ UNCHANGED <<crawlVars, fetchVars, audit, sitemaps, proc, util>>

\* A pending operation failed (rejected, or aborted by its deadline): caught;
\* a first chain is retried with BROWSER_UA, anything else ends the task.
NetFailed(id) ==
    LET req == net.pending[id]
        n0 == [net EXCEPT !.pending = NetDrop(net.pending, id), !.ended = @ + 1]
    IN IF NetRetries(req)
       THEN net' = [n0 EXCEPT !.starting = <<[op |-> req.op, chain |-> 2, hops |-> 0,
                                              reads |-> req.reads]>>]
       ELSE net' \in NetEnded(n0, FALSE)

\* A pending operation rejected.
NetReject(id) ==
    /\ net.pc = "running" /\ net.starting = <<>>
    /\ id \in DOMAIN net.pending /\ net.pending[id].server = "rejects"
    /\ NetFailed(id)
    /\ UNCHANGED <<crawlVars, fetchVars, audit, sitemaps, proc, util>>

\* The deadline of a pending operation fired: c.abort() rejects it.
NetTimeout(id) ==
    /\ net.pc = "running" /\ net.starting = <<>>
    /\ id \in DOMAIN net.pending /\ net.pending[id].deadline
    /\ NetFailed(id)
    /\ UNCHANGED <<crawlVars, fetchVars, audit, sitemaps, proc, util>>

NetReturn ==
    /\ net.pc = "running" /\ net.phase = "done"
    /\ DOMAIN net.pending = {} /\ net.starting = <<>>
    /\ net' = [net EXCEPT !.pc = "returned"]
    /\ UNCHANGED <<crawlVars, fetchVars, audit, sitemaps, proc, util>>

\* robots.txt, the sitemap candidates and children, and for every page its
\* two chains with their hops
MaxNetOps == 4 + MaxNetKids + MaxNetPages * 2 * (MaxNetHops + 1)

NetNext ==
    \/ NetIssue
    \/ \E id \in 1..MaxNetOps : NetAnswer(id)
    \/ \E id \in 1..MaxNetOps : NetReject(id)
    \/ \E id \in 1..MaxNetOps : NetTimeout(id)
    \/ NetReturn

SpecNet == NetInit /\ [][NetNext]_vars

\* ------------------------------------------------ audit: pure functions
\* A robots directive string (meta content or X-Robots-Tag value) is the
\* sequence of its tokens between "," / ";", trimmed: <<>> is the empty string,
\* a token "" is a blank run such as " ".
DirectiveKeys ==
    {"noindex", "nofollow", "noarchive", "nosnippet", "noimageindex", "nocache"}

\* An optional value: <<>> is undefined, <<v>> is v.
Undefined == <<>>

\* parseRobotsDirectives(raw): undefined for an empty string, otherwise the
\* object holding `true` under every recognised lower-cased token.
parseRobotsDirectives(raw) ==
    IF raw = <<>> THEN Undefined
    ELSE << [k \in {Lower(raw[i]) : i \in DOMAIN raw} \cap DirectiveKeys |-> TRUE] >>

\* a?.k for an optional directives object
Flag(a, k) == a # <<>> /\ k \in DOMAIN a[1] /\ a[1][k]

\* Variant of the merge in which the later occurrence overrides the earlier.
mergeRobots_Last(a, b) ==
    IF a = <<>> /\ b = <<>> THEN Undefined
    ELSE << [k \in DirectiveKeys |-> IF b # <<>> THEN Flag(b, k) ELSE Flag(a, k)] >>

mergeRobots(a, b) ==
    IF a = <<>> /\ b = <<>> THEN Undefined
    ELSE << [k \in DirectiveKeys |-> Flag(a, k) \/ Flag(b, k)] >>

\* getAllXRobots(headers): Headers.forEach calls back once per header name,
\* with the lines of a repeated header combined into one value joined by
\* ", " (the tokens of all lines, an empty line giving a blank token), so
\* there is at most one value.
getAllXRobots(lines) ==
    LET RECURSIVE join(_)
        join(ls) == IF ls = <<>> THEN <<>>
                    ELSE (IF Head(ls) = <<>> THEN <<"">> ELSE Head(ls)) \o join(Tail(ls))
    IN IF Len(lines) <= 1 THEN lines ELSE <<join(lines)>>

RECURSIVE MergeParsed(_, _)
\* for (const v of values) acc = mergeRobots(acc, parseRobotsDirectives(v))
MergeParsed(acc, raws) ==
    IF raws = <<>> THEN acc
    ELSE MergeParsed(mergeRobots(acc, parseRobotsDirectives(Head(raws))), Tail(raws))

\* A canonical value: undefined, null, or an absolute URL string.
CanonUndefined == [kind |-> "undefined", url |-> Url(<<>>, Root)]
CanonNull == [kind |-> "null", url |-> Url(<<>>, Root)]
CanonUrl(u) == [kind |-> "url", url |-> u]

\* An HTML document as the auditor reads it: the href of every
\* link[rel=canonical] (<<>> when missing or blank), the lang and href of every
\* link[rel=alternate][hreflang], the content of every meta[name=robots].
Doc(canonicals, hreflangs, metas) ==
    [canonicals |-> canonicals, hreflangs |-> hreflangs, metas |-> metas]

\* extractHtmlSignals evaluates new URL(baseUrl) outside absolutize's try.
ExtractThrows(doc, baseUrl) ==
    /\ ~IsValidUrl(baseUrl)
    /\ \/ (doc.canonicals # <<>> /\ doc.canonicals[1] # <<>>)
       \/ \E i \in DOMAIN doc.hreflangs :
             doc.hreflangs[i].lang # "" /\ doc.hreflangs[i].href # <<>>

RECURSIVE ExtractHreflang(_, _)
ExtractHreflang(links, baseUrl) ==
    IF links = <<>> THEN <<>>
    ELSE LET l == Head(links)
             abs == IF l.lang = "" \/ l.href = <<>> THEN <<>>
                    ELSE absolutize(ParseURL(baseUrl), l.href[1])
         IN (IF abs = <<>> THEN <<>> ELSE <<[lang |-> l.lang, href |-> abs[1]]>>)
            \o ExtractHreflang(Tail(links), baseUrl)

extractHtmlSignals(doc, baseUrl) ==
    [canonical |->
        IF doc.canonicals = <<>> THEN CanonUndefined
        ELSE IF doc.canonicals[1] = <<>> THEN CanonNull
        ELSE LET abs == absolutize(ParseURL(baseUrl), doc.canonicals[1][1]) IN
             IF abs = <<>> THEN CanonNull ELSE CanonUrl(abs[1]),
     hreflang |-> ExtractHreflang(doc.hreflangs, baseUrl),
     metaRobots |-> MergeParsed(Undefined, doc.metas),
     issues |-> IF Len(doc.canonicals) > 1 THEN <<"multiple canonicals">> ELSE <<>>]

\* The signals of a response whose body was not parsed.
NoSignals ==
    [canonical |-> CanonUndefined, hreflang |-> <<>>, metaRobots |-> Undefined,
     issues |-> <<>>]

\* Variant of the conflict test that fires whenever a noindex flag is set.
ConflictingNoindex_AnyFlag(noindexMeta, noindexHeader) == noindexMeta \/ noindexHeader

\* noindexMeta !== noindexHeader && (noindexMeta || noindexHeader)
ConflictingNoindex(noindexMeta, noindexHeader) ==
    noindexMeta # noindexHeader /\ (noindexMeta \/ noindexHeader)

\* The issues of the canonical check (lines 201-211).
CanonicalIssues(canonical, finalUrl) ==
    IF canonical.kind # "url" THEN <<>>
    ELSE IF ~IsValidUrl(finalUrl) \/ ~IsValidUrl(canonical.url)
    THEN <<"invalid canonical URL">>
    ELSE IF ~sameETLD1(ParseURL(finalUrl), ParseURL(canonical.url))
    THEN <<"canonical points to different eTLD+1">>
    ELSE <<>>

\* Variant of the failure result that keeps no issue.
AuditFailure_NoIssue(rawUrl) ==
    [url |-> rawUrl, finalUrl |-> rawUrl, status |-> 0, contentType |-> "",
     canonical |-> CanonNull, metaRobots |-> Undefined, xRobots |-> Undefined,
     noindex |-> [meta |-> FALSE, header |-> FALSE], hreflang |-> <<>>,
     issues |-> <<>>, redirectChain |-> <<>>]

\* The AuditResult of a URL whose fetch threw.
AuditFailure(rawUrl) ==
    [url |-> rawUrl, finalUrl |-> rawUrl, status |-> 0, contentType |-> "",
     canonical |-> CanonNull, metaRobots |-> Undefined, xRobots |-> Undefined,
     noindex |-> [meta |-> FALSE, header |-> FALSE], hreflang |-> <<>>,
     issues |-> <<"fetch failed">>, redirectChain |-> <<>>]

\* The AuditResult of a fetched URL: resInfo is what the auditor's
\* fetchWithRedirects returned, xValues the X-Robots-Tag header values of the
\* final response, sig the signals extracted from its body (or NoSignals).
AuditSuccess(rawUrl, resInfo, xValues, sig) ==
    LET xRobots == MergeParsed(Undefined, xValues)
        noindexMeta == Flag(sig.metaRobots, "noindex")
        noindexHeader == Flag(xRobots, "noindex")
    IN [url |-> rawUrl, finalUrl |-> resInfo.finalUrl, status |-> resInfo.res.status,
        contentType |-> resInfo.res.contentType,
        canonical |-> IF sig.canonical.kind = "undefined" THEN CanonNull ELSE sig.canonical,
        metaRobots |-> sig.metaRobots, xRobots |-> xRobots,
        noindex |-> [meta |-> noindexMeta, header |-> noindexHeader],
        hreflang |-> sig.hreflang,
        issues |-> sig.issues
                   \o (IF ConflictingNoindex(noindexMeta, noindexHeader)
                       THEN <<"conflicting noindex between meta and header">> ELSE <<>>)
                   \o CanonicalIssues(sig.canonical, resInfo.finalUrl),
        redirectChain |-> resInfo.redirectChain]

\* The auditor's own fetchWithRedirects: one attempt with the caller's user
\* agent, no abort signal, no retry.
auditChainAfterResponse(st, r) ==
    IF r.kind = "throw" THEN [st EXCEPT !.pc = "thrown"]
    ELSE IF r.status \in {301, 302, 303, 307, 308}
    THEN IF st.safety > 0
         THEN IF r.location = <<>>
              THEN [st EXCEPT !.res = r, !.safety = @ - 1, !.pc = "done"]
              ELSE IF ~CanResolve(r.location[1], st.currentUrl)
              THEN [st EXCEPT !.res = r, !.safety = @ - 1, !.pc = "thrown"]
              ELSE LET next == Resolve(r.location[1], st.currentUrl) IN
                   [st EXCEPT !.res = r, !.safety = @ - 1,
                              !.hops = Append(@, [from |-> st.currentUrl, to |-> next,
                                                  status |-> r.status]),
                              !.currentUrl = next,
                              !.requests = @ + 1]
         ELSE [st EXCEPT !.res = r, !.safety = @ - 1, !.pc = "done"]
    ELSE [st EXCEPT !.res = r, !.pc = "done"]

AUDIT_SAFETY == 10

auditChainBegin(url) ==
    [pc |-> "await", res |-> Throw, currentUrl |-> url, safety |-> AUDIT_SAFETY,
     hops |-> <<>>, requests |-> 1]

RECURSIVE auditChainRun(_, _)
auditChainRun(st, ua) ==
    IF st.pc # "await" THEN st
    ELSE auditChainRun(auditChainAfterResponse(st, Serve(st.currentUrl, ua)), ua)

auditFetchWithRedirects(url, ua) ==
    LET st == auditChainRun(auditChainBegin(url), ua) IN
    [kind |-> IF st.pc = "done" THEN "ok" ELSE "throw", res |-> st.res,
     finalUrl |-> st.currentUrl, redirectChain |-> st.hops]

\* ------------------------------------------------ one auditIndexability call
MaxAuditUrls == 2

AuditUrls ==
    { Url(HostEx, P("k")), Url(HostEx, P("old")), Url(HostEx, P("blocked")),
      Url(HostEx, P("down")), Url(HostEx, P("empty")), Url(<<>>, P("k")) }

\* The X-Robots-Tag header lines a final response may carry.
XRobotsHeaders ==
    { <<>>, << <<"noindex">> >>, << <<"nofollow">>, <<"noarchive", "">> >>,
      << <<"nofollow">>, <<"NOINDEX", "noarchive">> >> }

\* The bodies a final response may carry; text = FALSE is an empty body or a
\* body whose read failed.
AuditBodies ==
    { [text |-> FALSE, doc |-> Doc(<<>>, <<>>, <<>>)],
      [text |-> TRUE, doc |-> Doc(<<>>, <<>>, <<>>)],
      [text |-> TRUE, doc |-> Doc(<<>>, <<>>, << <<"NOINDEX", "NoFollow">> >>)],
      [text |-> TRUE,
       doc |-> Doc(<< <<HAbs(Url(HostOther, P("x")))>>, <<HRel(P("k"))>> >>,
                   << [lang |-> "es", href |-> <<HRel(P("es"))>>],
                      [lang |-> "", href |-> <<HRel(P("k"))>>] >>,
                   << <<"all">>, <<>> >>)],
      [text |-> TRUE,
       doc |-> Doc(<< <<HBad>> >>, << [lang |-> "fr", href |-> <<HBad>>] >>,
                   << <<"nofollow">>, <<"noindex">> >>)] }

AuditTask(pc) ==
    [pc |-> pc, fetched |-> FALSE, parsed |-> FALSE, finalUrl |-> Url(<<>>, Root),
     xLines |-> <<>>, xValues |-> <<>>,
     body |-> [text |-> FALSE, doc |-> Doc(<<>>, <<>>, <<>>)],
     result |-> AuditFailure(Url(<<>>, Root))]

AuditInit ==
    /\ CrawlIdle
    /\ fetchCall = FetchIdle /\ lastRes = Throw /\ net = NetIdle /\ sitemaps = SmIdle
    /\ proc = ProcIdle /\ util = UtilIdle
    /\ \E n \in 0..MaxAuditUrls, ua \in {BOT_UA, BROWSER_UA}, conc \in 1..MaxConc :
          \E urls \in [1..n -> AuditUrls] :
             audit = [pc |-> "running", urls |-> urls, ua |-> ua, conc |-> conc,
                      tasks |-> [i \in 1..n |-> AuditTask(IF i <= conc THEN "fetch"
                                                          ELSE "queued")],
                      order |-> <<>>, results |-> <<>>]

\* p-limit: when a task settles, the oldest queued task starts.
StartNextQueued(ts) ==
    LET q == {i \in DOMAIN ts : ts[i].pc = "queued"} IN
    IF q = {} THEN ts
    ELSE LET j == CHOOSE i \in q : \A k \in q : i <= k IN [ts EXCEPT ![j].pc = "fetch"]

\* Task i returned result.
AuditTaskDone(i, t, result) ==
    [audit EXCEPT !.tasks = StartNextQueued([@ EXCEPT ![i] = [t EXCEPT !.pc = "done",
                                                               !.result = result]]),
                  !.order = Append(@, i)]

\* await fetchWithRedirects(rawUrl, ua) threw: the fetch-failure result.
AuditFetchRejects(i) ==
    /\ audit.pc = "running"
    /\ i \in DOMAIN audit.tasks
    /\ audit.tasks[i].pc = "fetch"
    /\ auditFetchWithRedirects(audit.urls[i], audit.ua).kind = "throw"
    /\ audit' = AuditTaskDone(i, audit.tasks[i], AuditFailure(audit.urls[i]))
    /\ UNCHANGED <<crawlVars, fetchVars, net, sitemaps, proc, util>>

\* await fetchWithRedirects(rawUrl, ua) resolved: headers are read; an HTML
\* response other than 204 has its body read next.
AuditFetchResolves(i) ==
    /\ audit.pc = "running"
    /\ i \in DOMAIN audit.tasks
    /\ audit.tasks[i].pc = "fetch"
    /\ LET resInfo == auditFetchWithRedirects(audit.urls[i], audit.ua) IN
       /\ resInfo.kind = "ok"
       /\ \E x \in XRobotsHeaders :
             LET t == [audit.tasks[i] EXCEPT !.fetched = TRUE, !.xLines = x,
                                            !.xValues = getAllXRobots(x),
                                            !.finalUrl = resInfo.finalUrl]
             IN IF resInfo.res.status # 204 /\ IncludesTextHtml(resInfo.res.contentType)
                THEN audit' = [audit EXCEPT !.tasks[i] = [t EXCEPT !.pc = "text"]]
                ELSE audit' = AuditTaskDone(i, t,
                                  AuditSuccess(audit.urls[i], resInfo, t.xValues,
                                               NoSignals))
    /\ UNCHANGED <<crawlVars, fetchVars, net, sitemaps, proc, util>>

\* await res.text() settled: the signals are extracted and the result built.
\* A throw of extractHtmlSignals rejects the task and with it Promise.all.
AuditTextSettles(i) ==
    /\ audit.pc = "running"
    /\ i \in DOMAIN audit.tasks
    /\ audit.tasks[i].pc = "text"
    /\ LET resInfo == auditFetchWithRedirects(audit.urls[i], audit.ua) IN
       \E b \in AuditBodies :
          LET t == [audit.tasks[i] EXCEPT !.body = b, !.parsed = b.text] IN
          IF b.text /\ ExtractThrows(b.doc, resInfo.finalUrl)
          THEN audit' = [audit EXCEPT !.pc = "failed",
                                      !.tasks[i] = [t EXCEPT !.pc = "rejected"]]
          ELSE audit' = AuditTaskDone(i, t,
                            AuditSuccess(audit.urls[i], resInfo, t.xValues,
                                         IF b.text
                                         THEN extractHtmlSignals(b.doc, resInfo.finalUrl)
                                         ELSE NoSignals))
    /\ UNCHANGED <<crawlVars, fetchVars, net, sitemaps, proc, util>>

\* Variant of the result list that is filled in completion order.
AuditResults_CompletionOrder(ts, order) == [i \in DOMAIN ts |-> ts[order[i]].result]

\* await Promise.all(tasks): the results in input order.
AuditResults(ts, order) == [i \in DOMAIN ts |-> ts[i].result]

AuditReturn ==
    /\ audit.pc = "running"
    /\ \A i \in DOMAIN audit.tasks : audit.tasks[i].pc = "done"
    /\ audit' = [audit EXCEPT !.pc = "returned",
                              !.results = AuditResults(audit.tasks, audit.order)]
    /\ UNCHANGED <<crawlVars, fetchVars, net, sitemaps, proc, util>>

AuditNext ==
    \/ \E i \in 1..MaxAuditUrls : AuditFetchRejects(i)
    \/ \E i \in 1..MaxAuditUrls : AuditFetchResolves(i)
    \/ \E i \in 1..MaxAuditUrls : AuditTextSettles(i)
    \/ AuditReturn

SpecAudit == AuditInit /\ [][AuditNext]_vars

\* ------------------------------------------------ sitemap collection
\* What a sitemap endpoint serves: "fail" is a rejected fetch, a non-2xx
\* status or XML the parser rejects; "index" a <sitemapindex> whose children
\* are <<loc>> or <<>> (no loc); "urlset" a <urlset> whose entries are <<loc>>
\* or <<>> (missing or blank loc); "other" any other parsed document.
SmFail == [kind |-> "fail", children |-> <<>>, entries |-> <<>>]
SmOther == [kind |-> "other", children |-> <<>>, entries |-> <<>>]
SmIndex(children) == [kind |-> "index", children |-> children, entries |-> <<>>]
SmUrlset(entries) == [kind |-> "urlset", children |-> <<>>, entries |-> entries]

SmXml(host, name) == Url(host, PFile(name, "xml"))
SmRoot == SmXml(HostEx, "sitemap")
SmWww == SmXml(HostWww, "sitemap")
SmA == SmXml(HostEx, "sm-a")
SmB == SmXml(HostEx, "sm-b")
SmC == SmXml(HostEx, "sm-c")
SmEndpoints == {SmRoot, SmWww, SmA, SmB, SmC}

\* The documents each endpoint of the origin may serve (a finite tree).
SmDocsOf(e) ==
    CASE e = SmRoot ->
           { SmFail,
             SmUrlset(<< <<Url(HostEx, P("a"))>>, <<>>, <<Url(HostEx, PSlash("b"))>>,
                         <<Url(HostEx, P("orphan"))>> >>),
             SmIndex(<< <<SmA>>, <<>>, <<SmB>>, <<SmC>> >>) }
      [] e = SmWww ->
           { SmFail,
             SmUrlset(<< <<UrlQ(<<"EX", "com">>, P("k"), <<>>, "top")>>,
                         <<Url(HostEx, P("b"))>> >>) }
      [] e = SmA -> { SmFail, SmUrlset(<< <<Url(HostEx, P("a"))>>, <<Url(HostEx, P("b"))>> >>) }
      [] e = SmB -> { SmUrlset(<< <<Url(HostEx, P("d"))>>, <<Url(HostEx, P("k"))>> >>),
                      SmIndex(<< <<SmC>> >>) }
      [] OTHER -> { SmUrlset(<< <<Url(HostEx, P("orphan"))>> >>), SmFail, SmOther }

\* fetchText + parser.parse for an endpoint of the site
SmDoc(site, url) == IF url \in DOMAIN site THEN site[url] ELSE SmFail

\* entries.map(e => (e?.loc ?? "").toString().trim()).filter(Boolean)
SmLocs(entries) ==
    LET kept == SelectSeq(entries, LAMBDA e : e # <<>>) IN [i \in DOMAIN kept |-> kept[i][1]]

\* .slice(0, limit) for limit >= 0
Slice0(s, limit) == SubSeq(s, 1, Min(Max(limit, 0), Len(s)))

RECURSIVE PushUntil(_, _, _)
\* for (const cu of childUrls) { acc.push(cu); if (acc.length >= limit) break; }
PushUntil(acc, childUrls, limit) ==
    IF childUrls = <<>> THEN acc
    ELSE LET a == Append(acc, Head(childUrls)) IN
         IF Len(a) >= limit THEN a ELSE PushUntil(a, Tail(childUrls), limit)

\* The limit handed to a child call.
RemainingCapacity(limit, acc) == limit - Len(acc)

\* Variant of the try/catch of collectSitemapUrls that lets the failure out.
Caught_Rethrow(r) == r

\* try { ... } catch { } return []: a throw of the body becomes an empty list.
Caught(r) == IF r.kind = "throw" THEN [r EXCEPT !.kind = "ok", !.urls = <<>>] ELSE r

RECURSIVE collectSitemapUrls(_, _, _, _, _)
RECURSIVE SmChildLoop(_, _, _, _, _, _)

\* The loop over the children of a sitemap index; me is the call that runs it.
SmChildLoop(site, children, limit, acc, me, log) ==
    IF children = <<>> THEN [kind |-> "ok", urls |-> acc, log |-> log]
    ELSE IF Head(children) = <<>>
    THEN SmChildLoop(site, Tail(children), limit, acc, me, log)
    ELSE LET r == collectSitemapUrls(site, Head(children)[1],
                                     RemainingCapacity(limit, acc), me, log)
         IN IF r.kind = "throw" THEN [kind |-> "throw", urls |-> <<>>, log |-> r.log]
            ELSE LET acc2 == PushUntil(acc, r.urls, limit) IN
                 IF Len(acc2) >= limit THEN [kind |-> "ok", urls |-> acc2, log |-> r.log]
                 ELSE SmChildLoop(site, Tail(children), limit, acc2, me, r.log)

\* collectSitemapUrls(sitemapUrl, ua, limit) against site. log is the history
\* of the calls made so far: each call appends its endpoint, the limit it was
\* given, the call that made it (0 for the crawl loop) and the number of URLs
\* it returned.
collectSitemapUrls(site, sitemapUrl, limit, parent, log) ==
    LET me == Len(log) + 1
        doc == SmDoc(site, sitemapUrl)
        log1 == Append(log, [url |-> sitemapUrl, limit |-> limit, parent |-> parent,
                             got |-> 0, doc |-> doc.kind, threw |-> FALSE])
        body == IF doc.kind = "fail"
                THEN [kind |-> "throw", urls |-> <<>>, log |-> log1]
                ELSE IF doc.kind = "index" /\ doc.children # <<>>
                THEN SmChildLoop(site, doc.children, limit, <<>>, me, log1)
                ELSE IF doc.kind = "urlset" /\ doc.entries # <<>>
                THEN [kind |-> "ok", urls |-> Slice0(SmLocs(doc.entries), limit),
                      log |-> log1]
                ELSE [kind |-> "ok", urls |-> <<>>, log |-> log1]
        r == Caught(body)
    IN [r EXCEPT !.log = [r.log EXCEPT ![me].got = Len(r.urls),
                                       ![me].threw = (r.kind = "throw")]]

\* discoverSitemaps plus the /sitemap.xml of the start host and of its
\* www / non-www counterpart, as a Set in insertion order.
SmCandidates(base, robotsSitemaps) ==
    SelectSeqNoDup(robotsSitemaps
                   \o <<SmXml(base.host, "sitemap"), SmXml(base.host, "sitemap"),
                        SmXml(Counterpart(base.host), "sitemap")>>, <<>>)

SmRobotsSitemaps == { <<>>, <<SmB>> }

SmInit ==
    /\ CrawlIdle
    /\ fetchCall = FetchIdle /\ lastRes = Throw /\ net = NetIdle /\ audit = AuditIdle
    /\ proc = ProcIdle /\ util = UtilIdle
    /\ \E maxPages \in 0..MaxPages, rs \in SmRobotsSitemaps :
       \E site \in {f \in [SmEndpoints -> UNION {SmDocsOf(e) : e \in SmEndpoints}] :
                       \A e \in SmEndpoints : f[e] \in SmDocsOf(e)} :
          sitemaps = [pc |-> "collecting", maxPages |-> maxPages, site |-> site,
                      candidates |-> SmCandidates(ParseURL(StartUrl), rs),
                      next |-> 1, fromSitemaps |-> {}, results |-> <<>>, log |-> <<>>]

\* One turn of the loop over the candidates: collect, normalise, add; a throw
\* of the call is swallowed and the loop goes on.
SmCollectCandidate ==
    /\ sitemaps.pc = "collecting"
    /\ sitemaps.next <= Len(sitemaps.candidates)
    /\ LET r == collectSitemapUrls(sitemaps.site, sitemaps.candidates[sitemaps.next],
                                   sitemaps.maxPages, 0, sitemaps.log)
       IN sitemaps' = [sitemaps EXCEPT
              !.next = @ + 1,
              !.log = r.log,
              !.results = Append(@, [kind |-> r.kind, urls |-> r.urls]),
              !.fromSitemaps = IF r.kind = "throw" THEN @
                               ELSE @ \cup {normalizeForKey(r.urls[i]) : i \in DOMAIN r.urls}]
    /\ UNCHANGED <<crawlVars, fetchVars, net, audit, proc, util>>

\* The loop over the candidates is over.
SmCollected ==
    /\ sitemaps.pc = "collecting"
    /\ sitemaps.next > Len(sitemaps.candidates)
    /\ sitemaps' = [sitemaps EXCEPT !.pc = "done"]
    /\ UNCHANGED <<crawlVars, fetchVars, net, audit, proc, util>>

SmNext == SmCollectCandidate \/ SmCollected

SpecSitemap == SmInit /\ [][SmNext]_vars

\* --------------------- collectSitemapUrls, stepped fetch by fetch (a walk)
\* The recursion as a call stack: one frame per call that has not returned,
\* the innermost last. A frame awaits its fetchText ("fetch") or a child call
\* ("loop", with the children still to visit and the URLs accumulated).
MaxSmDepth == 6

SmFrame(url, limit) ==
    [url |-> url, limit |-> limit, pc |-> "fetch", children |-> <<>>, acc |-> <<>>]

\* The documents of the walked site: indexes may list themselves or an
\* ancestor, urlsets may be empty.
SmWalkEndpoints == {SmRoot, SmA, SmB}
SmWalkDocsOf(e) ==
    CASE e = SmRoot ->
           { SmIndex(<< <<SmRoot>> >>), SmIndex(<< <<SmA>>, <<SmRoot>> >>),
             SmIndex(<< <<SmA>>, <<>>, <<SmB>> >>),
             SmUrlset(<< <<Url(HostEx, P("a"))>> >>) }
      [] e = SmA ->
           { SmUrlset(<< <<Url(HostEx, P("a"))>>, <<Url(HostEx, P("b"))>> >>),
             SmUrlset(<< <<>> >>), SmFail }
      [] OTHER ->
           { SmIndex(<< <<SmRoot>> >>), SmIndex(<< <<SmA>> >>),
             SmUrlset(<< <<Url(HostEx, P("d"))>> >>) }

RECURSIVE SmResume(_)
RECURSIVE SmDeliver(_, _)

\* The innermost call goes on with its loop over the children, up to its
\* next await (the fetch of the next child that has a loc) or to its return.
SmResume(stack) ==
    LET n == Len(stack)
        top == stack[n]
    IN IF top.children = <<>> THEN SmDeliver(Front(stack), top.acc)
       ELSE IF Head(top.children) = <<>>
       THEN SmResume([stack EXCEPT ![n].children = Tail(@)])
       ELSE [stack |-> Append([stack EXCEPT ![n].children = Tail(@)],
                              SmFrame(Head(top.children)[1],
                                      RemainingCapacity(top.limit, top.acc))),
             result |-> <<>>]

\* A call returned urls to the call awaiting it (to the caller of the
\* outermost call when the stack is empty).
SmDeliver(stack, urls) ==
    IF stack = <<>> THEN [stack |-> <<>>, result |-> <<urls>>]
    ELSE LET n == Len(stack)
             acc2 == PushUntil(stack[n].acc, urls, stack[n].limit)
         IN IF Len(acc2) >= stack[n].limit THEN SmDeliver(Front(stack), acc2)
            ELSE SmResume([stack EXCEPT ![n].acc = acc2])

\* The fetchText of the innermost call settled with doc.
SmAfterFetch(stack, doc) ==
    LET n == Len(stack) IN
    IF doc.kind = "index" /\ doc.children # <<>>
    THEN SmResume([stack EXCEPT ![n].pc = "loop", ![n].children = doc.children])
    ELSE IF doc.kind = "urlset" /\ doc.entries # <<>>
    THEN SmDeliver(Front(stack), Slice0(SmLocs(doc.entries), stack[n].limit))
    ELSE SmDeliver(Front(stack), <<>>)

SmWalkInit ==
    /\ CrawlIdle
    /\ fetchCall = FetchIdle /\ lastRes = Throw /\ net = NetIdle /\ audit = AuditIdle
    /\ proc = ProcIdle /\ util = UtilIdle
    /\ \E limit \in 0..MaxPages :
       \E site \in {f \in [SmWalkEndpoints -> UNION {SmWalkDocsOf(e) : e \in SmWalkEndpoints}] :
                       \A e \in SmWalkEndpoints : f[e] \in SmWalkDocsOf(e)} :
          sitemaps = [pc |-> "walking", site |-> site, limit |-> limit,
                      stack |-> <<SmFrame(SmRoot, limit)>>, fetches |-> 1,
                      result |-> <<>>]

\* The pending fetchText settles and the calls run on: a child call is made
\* (one more fetch pending), or the returns unwind to the next pending loop.
SmWalkFetchSettles ==
    /\ sitemaps.pc = "walking"
    /\ LET r == SmAfterFetch(sitemaps.stack,
                             SmDoc(sitemaps.site, Last(sitemaps.stack).url))
       IN /\ r.stack # <<>>
          /\ Len(r.stack) <= MaxSmDepth
          /\ sitemaps' = [sitemaps EXCEPT !.stack = r.stack, !.fetches = @ + 1]
    /\ UNCHANGED <<crawlVars, fetchVars, net, audit, proc, util>>

\* The pending fetchText settles and the outermost call returns.
SmWalkReturns ==
    /\ sitemaps.pc = "walking"
    /\ LET r == SmAfterFetch(sitemaps.stack,
                             SmDoc(sitemaps.site, Last(sitemaps.stack).url))
       IN /\ r.stack = <<>>
          /\ sitemaps' = [sitemaps EXCEPT !.pc = "returned", !.stack = <<>>,
                                          !.result = r.result]
    /\ UNCHANGED <<crawlVars, fetchVars, net, audit, proc, util>>

SmWalkNext == SmWalkFetchSettles \/ SmWalkReturns

SpecSmWalk == SmWalkInit /\ [][SmWalkNext]_vars

\* ---------------------------------- robots.txt and the calls of one process
MaxCalls == 3
MaxInFlight == 2

OTHER_UA == "otherbot"

\* A robots.txt body as robots-parser reads it: the rule groups by user-agent
\* token ("*" is the default group) and the Sitemap lines.
RobotsGroup(disallow, delay) == [disallow |-> disallow, delay |-> delay]

\* fetch resolves whatever the status: a body without directives is an empty
\* policy. The bodies the origin may hold at the time of a call:
RobotsBodies ==
    { [groups |-> <<>>, sitemaps |-> <<>>],
      [groups |-> [t \in {"*"} |-> RobotsGroup({P("d")}, <<1>>)],
       sitemaps |-> <<SmA>>],
      [groups |-> [t \in {"*", BOT_UA} |->
                      IF t = "*" THEN RobotsGroup({}, <<>>)
                      ELSE RobotsGroup({P("a")}, <<>>)],
       sitemaps |-> <<>>] }

\* The request for /robots.txt (or the read of its body) rejects.
RobotsDown == [down |-> TRUE]

\* robots-parser: the group of the user agent, else the "*" group, else none.
ParserGroup(body, ua) ==
    IF ua \in DOMAIN body.groups THEN <<body.groups[ua]>>
    ELSE IF "*" \in DOMAIN body.groups THEN <<body.groups["*"]>>
    ELSE <<>>

\* parser.isAllowed(url, ua)
ParserIsAllowed(body, url, ua) ==
    LET g == ParserGroup(body, ua) IN
    g = <<>> \/ \A rule \in g[1].disallow : ~PathHasPrefix(url.path, rule)

\* parser.getCrawlDelay?.(userAgent) ?? parser.getCrawlDelay?.("*")
ParserCrawlDelay(body, ua) ==
    LET d(a) == IF ParserGroup(body, a) = <<>> THEN <<>>
                ELSE ParserGroup(body, a)[1].delay
    IN IF d(ua) # <<>> THEN d(ua) ELSE d("*")

\* { isAllowed: () => true, sitemaps: [] }: the agent of the catch branch, and
\* the stub crawlSite uses when robots are not respected.
AllowAllAgent_DenyAll == [kind |-> "denyAll", crawlDelay |-> <<>>, sitemaps |-> <<>>]
AllowAllAgent == [kind |-> "allowAll", crawlDelay |-> <<>>, sitemaps |-> <<>>]

\* The agent built from a parsed body: isAllowed closes over the parser,
\* made for the robots.txt of origin, and over the userAgent of the call that
\* built it.
ParsedAgent(origin, body, ua) ==
    [kind |-> "parsed", origin |-> origin, body |-> body, ua |-> ua,
     crawlDelay |-> ParserCrawlDelay(body, ua), sitemaps |-> body.sitemaps]

\* robots.isAllowed(url): parser.isAllowed(url, userAgent) ?? true; the parser
\* has no verdict on a URL of another origin than its robots.txt.
AgentIsAllowed(agent, url) ==
    CASE agent.kind = "allowAll" -> TRUE
      [] agent.kind = "denyAll" -> FALSE
      [] OTHER -> \/ ParseURL(url).host # agent.origin
                  \/ ParserIsAllowed(agent.body, url, agent.ua)

\* getRobotsAgent after its fetch settled with `served`.
AgentOf(origin, served, ua) ==
    IF served = RobotsDown THEN AllowAllAgent ELSE ParsedAgent(origin, served, ua)

\* const ua = (input.userAgent?.trim() || DEFAULTS.ua) || BROWSER_UA
\* (no CRAWLER_USER_AGENT in the environment: DEFAULTS.ua is BROWSER_UA)
CallUA(userAgent) == IF userAgent = <<>> THEN BROWSER_UA ELSE userAgent[1]

\* `${base.protocol}//${base.host}`: every URL of the model is https
Origin(url) == ParseURL(url).host

\* What a crawl run takes from its robots agent: the verdict on each URL it
\* may visit, on the start host and on its www / non-www counterpart, the
\* delay between visits, and the sitemap endpoints it collects.
ProbePaths == {Root, P("a"), P("b"), P("d"), PFile("doc", "pdf")}
PolicyOf(agent, startUrl) ==
    [allowed |-> {p \in ProbePaths : AgentIsAllowed(agent, Url(Origin(startUrl), p))},
     allowedCounterpart |->
        {p \in ProbePaths :
            AgentIsAllowed(agent, Url(Counterpart(Origin(startUrl)), p))},
     crawlDelay |-> agent.crawlDelay,
     candidates |-> SmCandidates(ParseURL(startUrl), agent.sitemaps)]

ProcStartUrls == {Url(HostEx, Root), Url(HostWww, P("a")), Url(<<>>, P("a"))}
ProcUserAgents == {<<>>, <<BOT_UA>>, <<OTHER_UA>>}

ProcInit ==
    /\ CrawlIdle
    /\ fetchCall = FetchIdle /\ lastRes = Throw /\ net = NetIdle
    /\ audit = AuditIdle /\ sitemaps = SmIdle /\ util = UtilIdle
    /\ \E rr \in BOOLEAN :
          proc = [pc |-> "serving", respectRobots |-> rr, cache |-> <<>>, calls |-> <<>>]

\* crawlSite from its entry to its first await.
\* "rejected": new URL(input.startUrl) threw; "robots": getRobotsAgent awaits
\* its fetch; "rest": the agent is at hand (stub or cache hit).
CallEntry_RobotsBeforeParse(startUrl, respectRobots, cache) ==
    IF respectRobots /\ Origin(startUrl) \notin DOMAIN cache THEN "robots"
    ELSE IF ~IsValidUrl(startUrl) THEN "rejected"
    ELSE "rest"
CallEntry(startUrl, respectRobots, cache) ==
    IF ~IsValidUrl(startUrl) THEN "rejected"
    ELSE IF ~respectRobots THEN "rest"
    ELSE IF Origin(startUrl) \in DOMAIN cache THEN "rest"
    ELSE "robots"


\* The calls of the process that have not settled: crawlSite is an async
\* function, a call begins while others await.
InFlightCalls == {i \in DOMAIN proc.calls : proc.calls[i].pc \notin {"returned", "rejected"}}

\* The calls that had their agent from getRobotsAgent for the origin of
\* startUrl by now.
CompletedFor(startUrl) ==
    {i \in DOMAIN proc.calls :
        /\ proc.calls[i].robots # <<>>
        /\ Origin(proc.calls[i].startUrl) = Origin(startUrl)}

\* cache.set(origin, agent)
CacheSet(cache, o, agent) ==
    [x \in DOMAIN cache \cup {o} |-> IF x = o THEN agent ELSE cache[x]]

\* A crawl call arrives and runs to its first await; the origin's robots.txt
\* is `served` to it. pc of a call: "rejected" | "robots.fetch" |
\* "robots.text" | "rest" | "returned"; left: the sitemap candidates it has
\* still to fetch; after: the calls that had completed getRobotsAgent for its
\* origin when it entered.
CallBegins ==
    /\ proc.pc = "serving" /\ Len(proc.calls) < MaxCalls
    /\ Cardinality(InFlightCalls) < MaxInFlight
    /\ \E startUrl \in ProcStartUrls, userAgent \in ProcUserAgents,
          served \in RobotsBodies \cup {RobotsDown} :
          LET ua == CallUA(userAgent)
              entry == CallEntry(startUrl, proc.respectRobots, proc.cache)
              agent == IF entry # "rest" THEN <<>>
                       ELSE IF ~proc.respectRobots THEN <<AllowAllAgent>>
                       ELSE <<proc.cache[Origin(startUrl)]>>
              call == [startUrl |-> startUrl, ua |-> ua, served |-> served,
                       pc |-> IF entry = "robots" THEN "robots.fetch" ELSE entry,
                       fetched |-> (entry = "robots"),
                       netOps |-> IF entry = "robots" THEN 1 ELSE 0,
                       robots |-> agent,
                       left |-> IF agent = <<>> THEN 0
                                ELSE Len(SmCandidates(ParseURL(startUrl),
                                                      agent[1].sitemaps)),
                       after |-> IF proc.respectRobots /\ IsValidUrl(startUrl)
                                 THEN CompletedFor(startUrl) ELSE {}]
          IN proc' = [proc EXCEPT !.calls = Append(@, call)]
    /\ UNCHANGED <<crawlVars, fetchVars, net, audit, sitemaps, util>>

\* getRobotsAgent of call i has its agent: cached under the origin, whatever
\* the cache holds by now, and returned to the call.
GotAgent(i, agent, served) ==
    LET c == proc.calls[i] IN
    [proc EXCEPT !.calls[i] = [c EXCEPT !.pc = "rest", !.robots = <<agent>>,
                                        !.served = served,
                                        !.left = Len(SmCandidates(ParseURL(c.startUrl),
                                                                  agent.sitemaps))],
                 !.cache = CacheSet(proc.cache, Origin(c.startUrl), agent)]

\* await fetch(robotsUrl) of call i resolved: the body is read next.
RobotsFetchResolves(i) ==
    /\ i \in DOMAIN proc.calls
    /\ proc.calls[i].pc = "robots.fetch" /\ proc.calls[i].served # RobotsDown
    /\ proc' = [proc EXCEPT !.calls[i].pc = "robots.text"]
    /\ UNCHANGED <<crawlVars, fetchVars, net, audit, sitemaps, util>>

\* await fetch(robotsUrl) of call i rejected: the catch branch.
RobotsFetchRejects(i) ==
    /\ i \in DOMAIN proc.calls
    /\ proc.calls[i].pc = "robots.fetch" /\ proc.calls[i].served = RobotsDown
    /\ proc' = GotAgent(i, AllowAllAgent, RobotsDown)
    /\ UNCHANGED <<crawlVars, fetchVars, net, audit, sitemaps, util>>

\* await res.text() of call i settled: the body is parsed, or the read
\* rejected and the catch branch runs.
RobotsTextSettles(i) ==
    /\ i \in DOMAIN proc.calls
    /\ proc.calls[i].pc = "robots.text"
    /\ \E read \in BOOLEAN :
          LET served == IF read THEN proc.calls[i].served ELSE RobotsDown IN
          proc' = GotAgent(i, AgentOf(Origin(proc.calls[i].startUrl), served,
                                       proc.calls[i].ua), served)
    /\ UNCHANGED <<crawlVars, fetchVars, net, audit, sitemaps, util>>

\* collectSitemapUrls of the next sitemap candidate of call i settled.
CallSitemapSettles(i) ==
    /\ i \in DOMAIN proc.calls
    /\ proc.calls[i].pc = "rest" /\ proc.calls[i].left > 0
    /\ proc' = [proc EXCEPT !.calls[i].left = @ - 1, !.calls[i].netOps = @ + 1]
    /\ UNCHANGED <<crawlVars, fetchVars, net, audit, sitemaps, util>>

\* The rest of the run of call i: the site is crawled under the policy of the
\* agent the call holds, and the output is returned.
CallReturns(i) ==
    /\ i \in DOMAIN proc.calls
    /\ proc.calls[i].pc = "rest" /\ proc.calls[i].left = 0
    /\ proc' = [proc EXCEPT !.calls[i].pc = "returned"]
    /\ UNCHANGED <<crawlVars, fetchVars, net, audit, sitemaps, util>>

ProcNext ==
    \/ CallBegins
    \/ \E i \in 1..MaxCalls : RobotsFetchResolves(i)
    \/ \E i \in 1..MaxCalls : RobotsFetchRejects(i)
    \/ \E i \in 1..MaxCalls : RobotsTextSettles(i)
    \/ \E i \in 1..MaxCalls : CallSitemapSettles(i)
    \/ \E i \in 1..MaxCalls : CallReturns(i)

SpecProc == ProcInit /\ [][ProcNext]_vars

\* ------------------------------------------- the URL utilities, on their own
\* The strings handed to normalizeForKey and hasIgnoredExtension: hosts in
\* either case (none: not a URL), paths with directory indexes, trailing
\* slashes and compound extensions, queries with tracking parameters.
UtilHosts == {HostEx, <<"EX", "com">>, HostWww, <<>>}
UtilPaths ==
    { Root, P("a"), PSlash("a"), PFile("index", "html"),
      << <<"a">>, <<"index", "html">> >>,
      << <<"a">>, <<"index", "html">>, <<"">> >>,
      << <<"x", "tar", "gz">> >>, << <<"x", "TAR", "GZ">> >>, PFile("doc", "pdf"),
      << <<"doc", "pdf">>, <<"">>, <<"">> >>,
      PFile("x", "gz") }
UtilQueries == { <<>>, <<"b", "a">>, <<"utm_source", "id">> }
UtilHashes == {"", "top"}
UtilIgnoreLists ==
    { {}, {<<"pdf">>}, {<<"tar", "gz">>}, {<<"tar", "bz2">>}, {<<"gz">>},
      {<<"", "gz">>}, {<<"tar", "gz">>, <<"pdf">>} }

UtilInit ==
    /\ CrawlIdle
    /\ fetchCall = FetchIdle /\ lastRes = Throw /\ net = NetIdle
    /\ audit = AuditIdle /\ sitemaps = SmIdle /\ proc = ProcIdle
    /\ \E h \in UtilHosts, p \in UtilPaths, q \in UtilQueries, f \in UtilHashes :
          util = [pc |-> "input", url |-> UrlQ(h, p, q, f)]

\* key = normalizeForKey(url)
NormalizeOnce ==
    /\ util.pc = "input"
    /\ util' = [pc |-> "key", url |-> util.url, key |-> normalizeForKey(util.url)]
    /\ UNCHANGED <<crawlVars, fetchVars, net, audit, sitemaps, proc>>

\* again = normalizeForKey(key)
NormalizeAgain ==
    /\ util.pc = "key"
    /\ util' = [util EXCEPT !.pc = "again"] @@ [again |-> normalizeForKey(util.key)]
    /\ UNCHANGED <<crawlVars, fetchVars, net, audit, sitemaps, proc>>

\* hasIgnoredExtension(new URL(url)) under one loaded ignore list
TestExtension ==
    /\ util.pc = "input" /\ IsValidUrl(util.url)
    /\ \E ign \in UtilIgnoreLists :
          util' = [pc |-> "tested", url |-> util.url, ignoredExt |-> ign,
                   ignored |-> hasIgnoredExtension(ParseURL(util.url), ign)]
    /\ UNCHANGED <<crawlVars, fetchVars, net, audit, sitemaps, proc>>

UtilNext == NormalizeOnce \/ NormalizeAgain \/ TestExtension

SpecUtil == UtilInit /\ [][UtilNext]_vars

\* ------------------------------------------------- crawl run: properties
BfsFetched(k) ==
    k \in DOMAIN inventoryMap /\ inventoryMap[k].status # 0 /\ k \notin toFetch

PostFetched(k) ==
    k \in DOMAIN inventoryMap /\ inventoryMap[k].status # 0 /\ k \in toFetch

InFlight ==
    Cardinality({i \in DOMAIN tasks : tasks[i].pc = "fetch"})
    + Cardinality({k \in DOMAIN postTasks : postTasks[k] = "fetch"})

\* C1: the number of logical fetches counted by the run (BFS visits plus
\* post-pass fetches, reported as stats.pagesFetched) never exceeds maxPages.
C1_FetchesWithinMaxPages ==
    /\ fetchedCount <= cfg.maxPages
    /\ output.returned => output.stats.pagesFetched <= cfg.maxPages

\* C2: exactly one InventoryItem per normalized key, during the run and in the
\* returned inventory: every item's normalizedUrl is the key it is stored
\* under, and no two items share a normalizedUrl.
OneItemPerKey(inv) ==
    /\ \A k \in DOMAIN inv : inv[k].normalizedUrl = k
    /\ \A k1, k2 \in DOMAIN inv :
          inv[k1].normalizedUrl = inv[k2].normalizedUrl => k1 = k2
C2_OneItemPerKey ==
    /\ OneItemPerKey(inventoryMap)
    /\ output.returned => OneItemPerKey(output.inventory)

\* C2 witness: the run returned an inventory holding a pre-registered item
\* merged by a BFS visit, a redirected BFS item and a post-pass update.
C2_Witness ==
    /\ output.returned
    /\ \E k \in DOMAIN inventoryMap :
          BfsFetched(k) /\ k \in fromSitemaps
    /\ \E k \in DOMAIN inventoryMap :
          BfsFetched(k) /\ normalizeForKey(inventoryMap[k].finalUrl) # k
    /\ \E k \in DOMAIN inventoryMap : PostFetched(k)

\* C3: over the whole run (BFS and post-pass) no normalized key is the subject
\* of more than one logical fetch, whatever the outcome of its first fetch.
C3_NoKeyFetchedTwice == \A k \in DOMAIN fetchLog : fetchLog[k] <= 1

\* C4: provenance is monotone: an item that is 'both' stays 'both' in every
\* step, and a provenance only ever changes to 'both'.
C4_ProvenanceMonotone ==
    [][\A k \in DOMAIN inventoryMap :
          /\ k \in DOMAIN inventoryMap'
          /\ inventoryMap[k].discoveredBy = "both"
                => inventoryMap'[k].discoveredBy = "both"
          /\ inventoryMap'[k].discoveredBy # inventoryMap[k].discoveredBy
                => inventoryMap'[k].discoveredBy = "both"]_vars

\* C4 witness: the run ended with an item made 'both' by a BFS merge over its
\* placeholder and another made 'both' by the post-pass.
C4_Witness ==
    /\ phase = "done"
    /\ \E k \in fromSitemaps : BfsFetched(k) /\ inventoryMap[k].discoveredBy = "both"
    /\ \E k \in toFetch : PostFetched(k) /\ inventoryMap[k].discoveredBy = "both"

\* The links on the page of f were read by the visit of f only: no other
\* visited node was redirected to it.
OwnPage(f) ==
    \A x \in DOMAIN inventoryMap :
        normalizeForKey(inventoryMap[x].finalUrl) = f => x = f

\* C5: every BFS-fetched item records the length of the shortest link path
\* from a seed: a key linked from a BFS-fetched page of depth d is never
\* recorded deeper than d + 1, whatever the completion order within a batch.
C5_DepthIsShortestPath ==
    \A i \in DOMAIN edges :
        LET f == edges[i].from
            t == edges[i].to
        IN (BfsFetched(f) /\ BfsFetched(t) /\ OwnPage(f))
              => inventoryMap[t].depth <= inventoryMap[f].depth + 1

\* C6: no item recorded by a BFS visit has a depth greater than the requested
\* max depth, and nothing deeper is ever waiting in the queue.
C6_DepthBound ==
    /\ \A k \in DOMAIN inventoryMap :
          BfsFetched(k) => inventoryMap[k].depth <= cfg.depthMax
    /\ \A i \in DOMAIN queue : queue[i].depth <= cfg.depthMax

\* C6 witness: with a positive max depth, a BFS visit recorded an item at
\* exactly the max depth whose page had links, and the run returned.
C6_Witness ==
    /\ output.returned
    /\ cfg.depthMax > 0
    /\ \E k \in DOMAIN inventoryMap :
          /\ BfsFetched(k)
          /\ inventoryMap[k].depth = cfg.depthMax
          /\ \E i \in DOMAIN edges : edges[i].from = k

\* C7: in every crawl result orphansInSitemap is the from-sitemap set minus
\* the edge targets and linkedNotInSitemap is the edge targets minus the
\* from-sitemap set, over the final edge list.
C7_ReportsAreSetDifferences ==
    output.returned =>
        LET targets == {output.edges[i].to : i \in DOMAIN output.edges} IN
        /\ output.edges = edges
        /\ output.reports.orphansInSitemap = fromSitemaps \ targets
        /\ output.reports.linkedNotInSitemap = targets \ fromSitemaps
        /\ output.reports.orphansInSitemap \cap targets = {}
        /\ output.reports.linkedNotInSitemap \cap fromSitemaps = {}

\* C7 witness: a returned result with a non-empty orphan list, a non-empty
\* linked-not-in-sitemap list and a sitemap key that has an inbound edge.
C7_Witness ==
    /\ output.returned
    /\ output.reports.orphansInSitemap # {}
    /\ output.reports.linkedNotInSitemap # {}
    /\ \E i \in DOMAIN edges : edges[i].to \in fromSitemaps

\* C9: at every moment of the run, post-pass included, the number of logical
\* fetches in flight is at most the configured concurrency limit.
C9_InFlightWithinLimit == InFlight <= cfg.maxConcurrency

\* ------------------------------------------ fetcher: properties (SpecFetch)
\* C10: one redirect-following attempt terminates for every server behaviour:
\* at most 10 hops are followed (at most 11 requests issued), the redirect
\* chain has at most 10 entries, and a response received when the hop budget
\* is spent is returned as final even if it is a redirect.
ChainBounded(c) ==
    /\ c.requests <= SAFETY + 1
    /\ Len(c.hops) <= SAFETY
    /\ Len(c.hops) = c.requests - 1
    /\ c.pc = "await" => c.safety >= 0 /\ c.safety = SAFETY + 1 - c.requests
C10_ChainTerminatesWithinCap ==
    /\ ChainBounded(fetchCall.chain)
    /\ ChainBounded(fetchCall.r1)
    /\ (fetchCall.pc = "returned" /\ (fetchCall.attempts = 1 \/ fetchCall.chain # fetchCall.r1))
          => fetchCall.chain.res = lastRes

\* C10 witness: an attempt that followed 10 hops returned the 11th response,
\* itself a redirect carrying a Location.
C10_Witness ==
    /\ fetchCall.pc = "returned"
    /\ fetchCall.chain.requests = SAFETY + 1
    /\ Len(fetchCall.chain.hops) = SAFETY
    /\ fetchCall.chain.res.status \in REDIRECT_STATUSES
    /\ fetchCall.chain.res.location # <<>>

\* The first attempt completed with a blocked final status under a caller
\* user agent other than the fallback.
FirstAttemptBlocked ==
    /\ fetchCall.ua # BROWSER_UA
    /\ fetchCall.r1.pc = "done"
    /\ fetchCall.r1.res.status \in BLOCKED_STATUSES

\* C11: after a blocked first attempt under a non-fallback user agent the
\* whole chain is retried once with the fallback user agent; the retry's
\* result is returned when it completes, the original blocked result when the
\* retry throws, and the call never fails.
C11_BlockedRetriedWithFallback ==
    FirstAttemptBlocked =>
        /\ fetchCall.attempts = 2
        /\ fetchCall.pc \in {"chain2", "returned"}
        /\ fetchCall.pc = "chain2" => UsedUA(fetchCall) = BROWSER_UA
        /\ fetchCall.pc = "returned" =>
              /\ fetchCall.chain = fetchCall.r1 \/ fetchCall.chain.res = lastRes
              /\ lastRes.kind = "throw" => fetchCall.chain = fetchCall.r1
              /\ (lastRes.kind = "res" /\ lastRes.status \notin REDIRECT_STATUSES)
                    => fetchCall.chain.res = lastRes /\ fetchCall.chain.pc = "done"

\* C11 witness: 403 to the caller's user agent, 200 to the fallback: the call
\* returned status 200.
C11_Witness ==
    /\ FirstAttemptBlocked
    /\ fetchCall.pc = "returned"
    /\ fetchCall.r1.res.status = 403
    /\ fetchCall.chain.res.status = 200
    /\ fetchCall.chain.currentUrl = fetchCall.url

\* C12: a thrown first attempt is retried exactly once with the fallback user
\* agent when the caller's differs; with the fallback user agent as the
\* caller's there is exactly one attempt, for a throw and for a blocked
\* status, and a throw fails the call. Never more than two attempts.
C12_ThrowRetriedOnceAtMostTwoAttempts ==
    /\ fetchCall.attempts \in {1, 2}
    /\ fetchCall.pc = "chain2" <=> (fetchCall.attempts = 2 /\ fetchCall.pc \notin {"returned", "failed"})
    /\ fetchCall.ua = BROWSER_UA =>
          /\ fetchCall.attempts = 1
          /\ fetchCall.r1.pc = "thrown" => fetchCall.pc = "failed"
          /\ fetchCall.r1.pc = "done" =>
                fetchCall.pc = "returned" /\ fetchCall.chain = fetchCall.r1
    /\ (fetchCall.ua # BROWSER_UA /\ fetchCall.r1.pc = "thrown") =>
          /\ fetchCall.attempts = 2
          /\ fetchCall.pc = "chain2" => UsedUA(fetchCall) = BROWSER_UA
          /\ fetchCall.pc = "failed" => fetchCall.chain.pc = "thrown"
          /\ fetchCall.pc = "returned" =>
                fetchCall.chain.pc = "done" /\ fetchCall.chain.res = lastRes

\* C12 witness: the first attempt threw under the caller's user agent and the
\* single retry with the fallback returned 200.
C12_Witness ==
    /\ fetchCall.ua # BROWSER_UA
    /\ fetchCall.r1.pc = "thrown"
    /\ fetchCall.attempts = 2
    /\ fetchCall.pc = "returned"
    /\ fetchCall.chain.res.status = 200

\* ------------------------------------------- network: properties (SpecNet)
\* C8: a crawl or audit call never blocks indefinitely: whatever the servers
\* do, as long as the call has not returned some step of it can still happen
\* (every pending operation is ended by a response, a rejection or its deadline).
C8_CallNeverBlocks == net.pc = "returned" \/ ENABLED NetNext
\* ------------------------------------------- audit: properties (SpecAudit)
ConflictIssue == "conflicting noindex between meta and header"

AuditDone(i) == i \in DOMAIN audit.tasks /\ audit.tasks[i].pc = "done"

\* Some directive string of raws holds the token noindex, in any letter case.
HasNoindexToken(raws) ==
    \E i \in DOMAIN raws : \E j \in DOMAIN raws[i] : Lower(raws[i][j]) = "noindex"

\* C13: the call returns one result per input URL, in input order whatever
\* the completion order; two tasks given the same URL and the same answer
\* build the same result whatever else is in the request; no task outcome
\* makes the call fail.
C13_OneResultPerUrlInOrder ==
    /\ audit.pc \in {"running", "returned"}
    /\ \A i \in DOMAIN audit.tasks : AuditDone(i) => audit.tasks[i].result.url = audit.urls[i]
    /\ \A i, j \in DOMAIN audit.tasks :
          (/\ AuditDone(i) /\ AuditDone(j)
           /\ audit.urls[i] = audit.urls[j]
           /\ audit.tasks[i].xValues = audit.tasks[j].xValues
           /\ audit.tasks[i].body = audit.tasks[j].body)
             => audit.tasks[i].result = audit.tasks[j].result
    /\ audit.pc = "returned" =>
          /\ Len(audit.results) = Len(audit.urls)
          /\ \A i \in DOMAIN audit.urls :
                /\ audit.results[i].url = audit.urls[i]
                /\ audit.results[i] = audit.tasks[i].result

\* C13 witness: two different URLs, the second task completed first, the
\* fetch of one failed and the other was fetched; the call returned.
C13_Witness ==
    /\ audit.pc = "returned"
    /\ Len(audit.urls) = 2
    /\ audit.urls[1] # audit.urls[2]
    /\ audit.order = <<2, 1>>
    /\ audit.results[1].status = 0
    /\ audit.results[2].status = 200

\* C14: the result of a URL whose fetch failed is exactly: status 0, issues
\* ["fetch failed"], finalUrl the requested URL, canonical null, no meta or
\* header directives, both noindex flags false, no hreflang, no redirect hops.
C14_FetchFailureResult ==
    \A i \in DOMAIN audit.tasks :
        (AuditDone(i) /\ ~audit.tasks[i].fetched) =>
            LET r == audit.tasks[i].result IN
            /\ r.url = audit.urls[i]
            /\ r.finalUrl = audit.urls[i]
            /\ r.status = 0
            /\ r.issues = <<"fetch failed">>
            /\ r.canonical = CanonNull
            /\ r.metaRobots = Undefined /\ r.xRobots = Undefined
            /\ r.noindex = [meta |-> FALSE, header |-> FALSE]
            /\ r.hreflang = <<>> /\ r.redirectChain = <<>>
            /\ audit.pc = "returned" => audit.results[i] = r

\* C14 witness: a returned call whose first URL is down.
C14_Witness ==
    /\ audit.pc = "returned"
    /\ Len(audit.urls) >= 1
    /\ audit.urls[1] = Url(HostEx, P("down"))
    /\ ~audit.tasks[1].fetched
    /\ audit.results[1].status = 0

\* C15: a page with a meta robots noindex and no X-Robots-Tag header gets
\* noindex.meta true, noindex.header false and no conflicting-noindex issue.
C15_MetaNoindexAloneIsNoConflict ==
    \A i \in DOMAIN audit.tasks :
        (/\ AuditDone(i) /\ audit.tasks[i].parsed
         /\ HasNoindexToken(audit.tasks[i].body.doc.metas)
         /\ audit.tasks[i].xValues = <<>>)
           => /\ audit.tasks[i].result.noindex.meta
              /\ ~audit.tasks[i].result.noindex.header
              /\ ConflictIssue \notin Range(audit.tasks[i].result.issues)

\* C16: for every fetched URL the noindex flags are the presence of a noindex
\* token in the parsed meta robots and in the X-Robots-Tag values, and the
\* conflict issue is emitted exactly when exactly one of the flags is true.
C16_ConflictIffExactlyOneFlag ==
    \A i \in DOMAIN audit.tasks :
        (AuditDone(i) /\ audit.tasks[i].fetched) =>
            LET r == audit.tasks[i].result
                m == audit.tasks[i].parsed /\ HasNoindexToken(audit.tasks[i].body.doc.metas)
                h == HasNoindexToken(audit.tasks[i].xValues)
            IN /\ r.noindex.meta = m
               /\ r.noindex.header = h
               /\ (ConflictIssue \in Range(r.issues)) <=> ((m /\ ~h) \/ (h /\ ~m))

\* C16 witness: a returned call with one result flagged by the header only,
\* carrying the issue, and one flagged by both, not carrying it.
C16_Witness ==
    /\ audit.pc = "returned"
    /\ \E i \in DOMAIN audit.results :
          /\ audit.results[i].noindex.header /\ ~audit.results[i].noindex.meta
          /\ ConflictIssue \in Range(audit.results[i].issues)
    /\ \E i \in DOMAIN audit.results :
          /\ audit.results[i].noindex.header /\ audit.results[i].noindex.meta
          /\ ConflictIssue \notin Range(audit.results[i].issues)

\* C17: the audit's fetch outcome for a URL is what the crawl engine's
\* fetchWithRedirects returns for it: same failure, status, final URL and
\* redirect chain, fallback retries included.
C17_AuditFetchIsCrawlFetch ==
    \A i \in DOMAIN audit.tasks :
        AuditDone(i) =>
            LET f == fetchWithRedirects(audit.urls[i], audit.ua)
                r == audit.tasks[i].result
            IN IF f.kind = "throw" THEN ~audit.tasks[i].fetched /\ r.status = 0
               ELSE /\ audit.tasks[i].fetched
                    /\ r.status = f.res.status
                    /\ r.finalUrl = f.finalUrl
                    /\ r.redirectChain = f.redirectChain

\* --------------------------------------- sitemaps: properties (SpecSitemap)
RECURSIVE GotSum(_, _, _)
\* The number of URLs returned by the calls that call p made, among the first
\* k calls of the log.
GotSum(log, p, k) ==
    IF k = 0 THEN 0
    ELSE (IF log[k].parent = p THEN log[k].got ELSE 0) + GotSum(log, p, k - 1)

\* C18: every collectSitemapUrls call returns at most its limit; the limit
\* handed to a recursive call is the caller's limit minus what the caller has
\* accumulated, and no child is fetched once the accumulated count has
\* reached the caller's limit.
C18_LimitThreadedAndEarlyStop ==
    \A k \in DOMAIN sitemaps.log :
        LET c == sitemaps.log[k] IN
        /\ c.got <= c.limit
        /\ c.parent > 0 =>
              LET accumulated == GotSum(sitemaps.log, c.parent, k - 1) IN
              /\ c.limit = sitemaps.log[c.parent].limit - accumulated
              /\ accumulated < sitemaps.log[c.parent].limit

\* C19: the from-sitemap set collected over all candidates never holds more
\* than maxPages URLs.
C19_FromSitemapsWithinMaxPages ==
    Cardinality(sitemaps.fromSitemaps) <= sitemaps.maxPages

\* C20: no collectSitemapUrls call raises; a failing endpoint yields an empty
\* list; the from-sitemap set holds the URLs of every candidate collected so
\* far; a sitemap index returns the URLs of all its children, a failing child
\* adding none.
C20_FailureYieldsEmptyOthersKept ==
    /\ \A k \in DOMAIN sitemaps.log :
          /\ ~sitemaps.log[k].threw
          /\ sitemaps.log[k].doc = "fail" => sitemaps.log[k].got = 0
          /\ sitemaps.log[k].doc = "index" =>
                sitemaps.log[k].got = GotSum(sitemaps.log, k, Len(sitemaps.log))
    /\ \A i \in DOMAIN sitemaps.results :
          /\ sitemaps.results[i].kind = "ok"
          /\ SmDoc(sitemaps.site, sitemaps.candidates[i]).kind = "fail"
                => sitemaps.results[i].urls = <<>>
    /\ sitemaps.fromSitemaps =
          UNION { {normalizeForKey(sitemaps.results[i].urls[j]) :
                      j \in DOMAIN sitemaps.results[i].urls} :
                  i \in DOMAIN sitemaps.results }

\* C20 witness: the collection ended; one candidate failed; another is an
\* index whose first child failed and whose later child's URLs were returned
\* and reached the from-sitemap set.
C20_Witness ==
    /\ sitemaps.pc = "done"
    /\ \E i \in DOMAIN sitemaps.results :
          SmDoc(sitemaps.site, sitemaps.candidates[i]).kind = "fail"
    /\ \E p, k1, k2 \in DOMAIN sitemaps.log :
          /\ sitemaps.log[p].doc = "index" /\ sitemaps.log[p].parent = 0
          /\ sitemaps.log[k1].parent = p /\ sitemaps.log[k1].doc = "fail"
          /\ sitemaps.log[k2].parent = p /\ k2 > k1 /\ sitemaps.log[k2].got > 0
          /\ sitemaps.log[p].got > 0
    /\ sitemaps.fromSitemaps # {}

\* ----------------------------------------- process: properties (SpecProc)
\* The policy call c runs under
Policy(c) == PolicyOf(c.robots[1], c.startUrl)

\* C21: when the robots.txt fetch of a call fails, getRobotsAgent returns an
\* agent that allows every URL, declares no sitemaps and no crawl delay, and
\* the call is not failed by it: it goes on and returns.
C21_RobotsFailureAllowsAll ==
    \A i \in DOMAIN proc.calls :
       LET c == proc.calls[i] IN
       (IsValidUrl(c.startUrl) /\ c.served = RobotsDown) =>
          /\ c.pc # "rejected"
          /\ (c.fetched /\ c.robots # <<>>) =>
                /\ \A p \in ProbePaths :
                      AgentIsAllowed(c.robots[1], Url(Origin(c.startUrl), p))
                /\ c.robots[1].sitemaps = <<>>
                /\ c.robots[1].crawlDelay = <<>>
                /\ Policy(c).allowed = ProbePaths
                /\ Policy(c).allowedCounterpart = ProbePaths
                /\ proc.cache[Origin(c.startUrl)].kind \in {"allowAll", "parsed"}

C21_Witness ==
    \E i \in DOMAIN proc.calls :
       /\ proc.calls[i].pc = "returned"
       /\ proc.calls[i].served = RobotsDown
       /\ proc.calls[i].fetched
       /\ Policy(proc.calls[i]).allowed = ProbePaths

\* C22: the robots policy a returned call applied is a function of that call
\* alone: it is the policy of the robots.txt served during the call, read for
\* the call's own user agent, whatever calls the process served before.
C22_PolicyIsOfThisCall ==
    \A i \in DOMAIN proc.calls :
       LET c == proc.calls[i] IN
       (c.pc = "returned" /\ proc.respectRobots) =>
          Policy(c) = PolicyOf(AgentOf(Origin(c.startUrl), c.served, c.ua), c.startUrl)

\* C25: a call whose start URL does not parse is rejected before any network
\* operation was started, and has no result; every call that goes on to its
\* robots or sitemap requests has a start URL that parsed.
C25_BadStartUrlFailsBeforeNetwork ==
    \A i \in DOMAIN proc.calls :
       LET c == proc.calls[i] IN
       /\ ~IsValidUrl(c.startUrl) =>
             /\ c.pc = "rejected"
             /\ c.netOps = 0
             /\ c.robots = <<>>
       /\ c.pc # "rejected" => IsValidUrl(c.startUrl)

C25_Witness ==
    /\ proc.respectRobots
    /\ Len(proc.calls) = 2
    /\ proc.calls[1].pc = "returned"
    /\ proc.calls[2].pc = "rejected"
    /\ proc.calls[2].netOps = 0

\* -------------------------------------- URL utilities: properties (SpecUtil)
\* C23: normalizeForKey is idempotent on every valid URL, and returns a
\* string that is not a URL unchanged.
C23_NormalizeForKeyIdempotent ==
    /\ (util.pc = "again" /\ IsValidUrl(util.url)) => util.again = util.key
    /\ (util.pc \in {"key", "again"} /\ ~IsValidUrl(util.url)) => util.key = util.url

\* C24: hasIgnoredExtension is true for a path ending in ".tar.gz" only if
\* "tar.gz" is in the ignore list.
C24_TarGzOnlyIfCompoundListed ==
    (/\ util.pc = "tested"
     /\ EndsWithParts(Last(util.url.path), "tar", "gz")
     /\ util.ignored)
       => <<"tar", "gz">> \in util.ignoredExt

\* --------------------------------------- BFS loop: properties (Spec)
TaskKey(t) == normalizeForKey(t.node.url)

\* The step removed nodes from the front of the queue (a push only extends it).
Dequeued ==
    ~(Len(queue') >= Len(queue) /\ SubSeq(queue', 1, Len(queue)) = queue)

\* C26: in the BFS loop a batch holds at most maxConcurrency nodes, at most
\* maxConcurrency visits are in flight, and nodes leave the queue only when
\* every visit of the current batch has completed.
C26_BatchWithinLimitAndAwaited ==
    /\ [](phase \in {"loop", "batch"} =>
            /\ Len(tasks) <= cfg.maxConcurrency
            /\ Cardinality({i \in DOMAIN tasks : tasks[i].pc # "done"})
                  <= cfg.maxConcurrency)
    /\ [][(phase \in {"loop", "batch"} /\ Dequeued) =>
             \A i \in DOMAIN tasks : tasks[i].pc = "done"]_vars

C26_Witness ==
    /\ phase = "batch"
    /\ cfg.maxConcurrency = 2
    /\ Len(tasks) = 2
    /\ \A i \in DOMAIN tasks : tasks[i].pc # "done"
    /\ queue # <<>>

\* Fetches of key k issued by BFS visits (the post-pass logs one for each key
\* it fetches).
BfsFetches(k) == fetchLog[k] - (IF k \in toFetch THEN 1 ELSE 0)

\* C27: for every normalized key at most one BFS visit gets past the seen
\* check and fetches it, however often the key was enqueued: two visits of
\* one batch with the same key are never both fetching or fetched.
C27_AtMostOneBfsVisitPerKey ==
    /\ \A k \in DOMAIN fetchLog : BfsFetches(k) <= 1
    /\ \A i, j \in DOMAIN tasks :
          (i # j /\ TaskKey(tasks[i]) = TaskKey(tasks[j])) =>
             ~(/\ tasks[i].pc # "done" \/ tasks[i].failed
               /\ tasks[j].pc # "done" \/ tasks[j].failed)

C27_Witness ==
    /\ phase = "batch"
    /\ \E i, j \in DOMAIN tasks :
          /\ i # j
          /\ TaskKey(tasks[i]) = TaskKey(tasks[j])
          /\ tasks[i].pc = "fetch"
          /\ fetchLog[TaskKey(tasks[i])] = 1

\* C28: the step in which the fetch of a BFS node fails changes neither the
\* fetched counter, the inventory, the edge list nor the queue; the run is not
\* failed by it (the batch is still awaited, nothing is returned), and the
\* other visits of the batch go on untouched.
C28_FailedFetchChangesNothing ==
    [][\A i \in DOMAIN tasks :
          (i \in DOMAIN tasks' /\ ~tasks[i].failed /\ tasks'[i].failed) =>
             /\ UNCHANGED <<fetchedCount, inventoryMap, edges, queue>>
             /\ phase' = "batch"
             /\ output' = NoOutput
             /\ \A j \in DOMAIN tasks \ {i} : tasks'[j] = tasks[j]]_vars

C28_Witness ==
    /\ phase = "batch"
    /\ fetchedCount >= 1
    /\ queue # <<>>
    /\ \E i, j \in DOMAIN tasks :
          /\ tasks[i].failed
          /\ TaskKey(tasks[i]) \notin DOMAIN inventoryMap
          /\ tasks[j].pc = "fetch"

\* ------------------------------- redirect chain: properties (SpecFetch)
WellFormedChain(c, url) ==
    /\ \A i \in DOMAIN c.hops : c.hops[i].status \in REDIRECT_STATUSES
    /\ c.hops # <<>> => c.hops[1].from = url
    /\ \A i \in 1..(Len(c.hops) - 1) : c.hops[i].to = c.hops[i + 1].from
    /\ c.currentUrl = IF c.hops = <<>> THEN url ELSE Last(c.hops).to

\* The attempt in progress completes in this step, with the response lastRes'.
AttemptCompletes ==
    /\ fetchCall.pc \in {"chain1", "chain2"}
    /\ ChainAfterResponse(fetchCall.chain, lastRes').pc = "done"

\* The attempt the step completed: kept as r1 when a retry starts.
CompletedAttempt(fx) == IF fx.pc = "chain2" THEN fx.r1 ELSE fx.chain

\* C29: every completed attempt has one hop per followed redirect, in order
\* (first from = requested URL, each to = next from, every status a redirect
\* status), finalUrl is the last hop's to (the requested URL without hops),
\* and its response is the one received from finalUrl; a redirect response
\* without Location completes the attempt as its final response, adding no hop.
C29_RedirectChainWellFormed ==
    /\ [](/\ fetchCall.chain.pc = "done" => WellFormedChain(fetchCall.chain, fetchCall.url)
          /\ fetchCall.r1.pc = "done" => WellFormedChain(fetchCall.r1, fetchCall.url))
    /\ [][AttemptCompletes =>
             /\ CompletedAttempt(fetchCall').pc = "done"
             /\ CompletedAttempt(fetchCall').res = lastRes'
             /\ CompletedAttempt(fetchCall').currentUrl = fetchCall.chain.currentUrl]_vars
    /\ [][(/\ fetchCall.pc \in {"chain1", "chain2"}
           /\ lastRes'.kind = "res"
           /\ lastRes'.status \in REDIRECT_STATUSES
           /\ lastRes'.location = <<>>) =>
             /\ CompletedAttempt(fetchCall').pc = "done"
             /\ CompletedAttempt(fetchCall').res = lastRes'
             /\ CompletedAttempt(fetchCall').hops = fetchCall.chain.hops]_vars

\* C29 witness: a returned attempt that followed two redirects to a 200.
C29_Witness ==
    /\ fetchCall.pc = "returned"
    /\ Len(fetchCall.chain.hops) = 2
    /\ fetchCall.chain.hops[1].to = fetchCall.chain.hops[2].from
    /\ fetchCall.chain.res.status = 200
    /\ fetchCall.chain.currentUrl = fetchCall.chain.hops[2].to

\* ------------------------------ sitemap walk: properties (SpecSmWalk)
\* A call is pending with the endpoint and the limit of a call that awaits it.
\* The documents are fixed and the function is deterministic: such a call
\* makes the same child calls again, without end.
SmReentered ==
    \E i, j \in DOMAIN sitemaps.stack :
       /\ i < j
       /\ sitemaps.stack[i].url = sitemaps.stack[j].url
       /\ sitemaps.stack[i].limit = sitemaps.stack[j].limit

\* C30: collectSitemapUrls terminates for every finite set of documents, also
\* when an index lists itself or an ancestor and children contribute no URL:
\* no call is ever re-entered with the arguments of a call still awaiting it.
C30_RecursionStops == sitemaps.pc = "walking" => ~SmReentered

\* ------------------------------------- BFS loop: termination (SpecLive)
\* C31: when every pending fetch eventually completes or fails, the BFS loop
\* ends in every run, also when every fetch fails; and it has ended only with
\* the queue empty or the fetched counter at maxPages.
C31_BfsLoopTerminates ==
    /\ <>(phase \in {"post", "done"})
    /\ [](phase \in {"post", "done"} => (queue = <<>> \/ fetchedCount >= cfg.maxPages))

\* C31 witness: the loop ended with nothing counted, after visits whose
\* fetches all failed emptied the queue.
C31_Witness ==
    /\ phase = "post"
    /\ cfg.maxPages > 0
    /\ fetchedCount = 0
    /\ queue = <<>>
    /\ Cardinality(seen) >= 2
    /\ \A k \in seen : k \in DOMAIN fetchLog

\* ------------------------------------- inventory: properties (Spec)
\* C32: the item a BFS visit recorded has provenance 'both' if and only if
\* the visited node's normalized key is in the from-sitemap set, and 'html'
\* otherwise.
C32_VisitProvenanceByKey ==
    \A k \in DOMAIN inventoryMap :
       BfsFetched(k) =>
          inventoryMap[k].discoveredBy = (IF k \in fromSitemaps THEN "both" ELSE "html")

\* C33: every recorded edge goes from an internal page to an internal target:
\* both keys pass isInternal against the start URL under includeSubdomains,
\* also when the visited node was redirected before its body was parsed.
C33_EdgesInternalBothEnds ==
    \A i \in DOMAIN edges :
       /\ isInternal(cfg.base, ParseURL(edges[i].from), cfg.includeSub)
       /\ isInternal(cfg.base, ParseURL(edges[i].to), cfg.includeSub)

\* C34: a sitemap URL with zero inbound edges is never fetched during a run,
\* neither by a BFS visit nor by the post-pass, and has status 0 in the final
\* inventory.
C34_NoInboundNeverFetched ==
    phase = "done" =>
       \A k \in fromSitemaps :
          k \notin InboundOf(edges) =>
             /\ k \notin DOMAIN fetchLog
             /\ inventoryMap[k].status = 0

\* A post-pass callback for key k settles in this step with its fetch rejected
\* (a resolved fetch stores the response's status, which is never 0).
PostFailed(k) ==
    /\ postTasks[k] = "fetch"
    /\ postTasks'[k] = "done"
    /\ inventoryMap'[k].status = 0

\* C35: when a post-pass fetch fails, the item of that key keeps its placeholder
\* state (status 0, provenance 'sitemap', depth 9999, empty redirect chain),
\* the fetched counter is not incremented, the other post-pass fetches are
\* left as they are, and the run returns with that placeholder.
C35_FailedPostFetchKeepsPlaceholder ==
    /\ [][\A k \in DOMAIN postTasks :
            PostFailed(k) =>
               /\ inventoryMap[k] = Placeholder(k)
               /\ inventoryMap' = inventoryMap
               /\ fetchedCount' = fetchedCount
               /\ \A j \in DOMAIN postTasks \ {k} : postTasks'[j] = postTasks[j]
               /\ phase' = "post"]_vars
    /\ [](phase = "done" =>
            /\ output.returned
            /\ \A k \in toFetch :
                  inventoryMap[k].status = 0 => output.inventory[k] = Placeholder(k))

C35_Witness ==
    /\ phase = "done"
    /\ \E k, j \in toFetch :
          /\ inventoryMap[k].status = 0
          /\ inventoryMap[j].status # 0
          /\ output.stats.pagesFetched = fetchedCount

WithStatus == {k \in DOMAIN inventoryMap : inventoryMap[k].status # 0}

\* C38: at the end of every run stats.pagesFetched equals the number of
\* inventory items whose status is not 0; all along the run each counted
\* fetch (BFS or post-pass) gives a status to exactly one more item, and no
\* item gets a status without the counter being incremented.
C38_PagesFetchedCountsItemsWithStatus ==
    /\ [](fetchedCount = Cardinality(WithStatus))
    /\ [](phase = "done" =>
            output.stats.pagesFetched =
               Cardinality({k \in DOMAIN output.inventory : output.inventory[k].status # 0}))
    /\ [][/\ fetchedCount' \in {fetchedCount, fetchedCount + 1}
          /\ WithStatus \subseteq WithStatus']_vars

C38_Witness ==
    /\ phase = "done"
    /\ output.stats.pagesFetched >= 3
    /\ \E k \in WithStatus : k \in toFetch
    /\ \E k \in WithStatus : k \notin toFetch
    /\ \E k \in DOMAIN fetchLog : k \notin WithStatus

\* C39: in the final inventory an item has provenance 'sitemap' if and only
\* if its status is 0, and if and only if its depth is the sentinel 9999;
\* every fetched item has provenance 'html' or 'both' and a depth of at most
\* max depth + 1 (max depth + 1 < 9999, no response has status 0).
C39_SitemapOnlyIffUnfetched ==
    phase = "done" =>
       \A k \in DOMAIN output.inventory :
          LET it == output.inventory[k] IN
          /\ (it.discoveredBy = "sitemap") <=> (it.status = 0)
          /\ (it.status = 0) <=> (it.depth = SENTINEL_DEPTH)
          /\ it.status # 0 =>
                /\ it.discoveredBy \in {"html", "both"}
                /\ it.depth <= cfg.depthMax + 1

C39_Witness ==
    /\ phase = "done"
    /\ \E k \in DOMAIN output.inventory : output.inventory[k].status = 0
    /\ \E k \in DOMAIN output.inventory :
          output.inventory[k].status # 0 /\ output.inventory[k].discoveredBy = "html"
    /\ \E k \in toFetch :
          /\ output.inventory[k].status # 0
          /\ output.inventory[k].depth = cfg.depthMax + 1
    /\ \E k \in DOMAIN output.inventory \ toFetch :
          output.inventory[k].status # 0 /\ output.inventory[k].discoveredBy = "both"

\* ------------------------------------------- audit: properties (SpecAudit)
\* The first link[rel=canonical] of task i's parsed body has an href that
\* does not parse as a URL against the page's final URL.
BadFirstCanonical(i) ==
    LET t == audit.tasks[i] IN
    /\ t.pc = "done" /\ t.parsed
    /\ t.body.doc.canonicals # <<>>
    /\ t.body.doc.canonicals[1] # <<>>
    /\ ~CanResolve(t.body.doc.canonicals[1][1], ParseURL(t.finalUrl))

\* C36: when the href of the first canonical link of an audited page fails
\* to parse as a URL, the result contains the issue 'invalid canonical URL'
\* and not the different-eTLD+1 issue.
C36_BadCanonicalReported ==
    audit.pc # "idle" =>
       \A i \in DOMAIN audit.tasks :
          BadFirstCanonical(i) =>
             LET issues == audit.tasks[i].result.issues IN
             /\ \E n \in DOMAIN issues : issues[n] = "invalid canonical URL"
             /\ \A n \in DOMAIN issues : issues[n] # "canonical points to different eTLD+1"

\* The optional directive objects the code builds for task i: the parsed
\* combined X-Robots-Tag value, each parsed meta content, and the two merged
\* results.
DirectivesOf(i) ==
    LET t == audit.tasks[i] IN
    {parseRobotsDirectives(t.xValues[n]) : n \in DOMAIN t.xValues}
    \cup {parseRobotsDirectives(t.body.doc.metas[n]) : n \in DOMAIN t.body.doc.metas}
    \cup {t.result.xRobots, t.result.metaRobots, Undefined}

SameFlags(a, b) == \A k \in DirectiveKeys : Flag(a, k) = Flag(b, k)

\* The directive string raw (a header line or a meta content) asserts k.
Asserts(raw, k) == \E j \in DOMAIN raw : Lower(raw[j]) = k

\* The merged results of a fetched task are the per-directive OR of the
\* occurrences served: X-Robots-Tag header lines, meta robots tags.
MergedIsOrOfOccurrences ==
    \A i \in DOMAIN audit.tasks :
       LET t == audit.tasks[i] IN
       t.pc = "done" /\ t.fetched =>
          \A k \in DirectiveKeys :
             /\ Flag(t.result.xRobots, k) <=>
                   \E n \in DOMAIN t.xLines : Asserts(t.xLines[n], k)
             /\ t.parsed =>
                   (Flag(t.result.metaRobots, k) <=>
                       \E n \in DOMAIN t.body.doc.metas :
                          Asserts(t.body.doc.metas[n], k))

\* mergeRobots over the directive objects of the first and the last task is
\* commutative, associative and monotone, and the per-directive OR.
MergeLaws ==
    \A a \in DirectivesOf(1), b \in DirectivesOf(Len(audit.tasks)) :
       LET ab == mergeRobots(a, b) IN
       /\ ab = mergeRobots(b, a)
       /\ \A k \in DirectiveKeys :
             /\ Flag(ab, k) <=> (Flag(a, k) \/ Flag(b, k))
             /\ Flag(a, k) => Flag(ab, k)
       /\ \A c \in DirectivesOf(Len(audit.tasks)) :
             mergeRobots(ab, c) = mergeRobots(a, mergeRobots(b, c))

C40_CachedAgentServesLaterCalls ==
    \A j \in DOMAIN proc.calls :
       \A i \in proc.calls[j].after :
          LET c == proc.calls[j] IN
          /\ ~c.fetched
          /\ c.robots = proc.calls[i].robots
          /\ (proc.calls[i].fetched /\ proc.calls[i].served = RobotsDown) =>
                c.robots = <<AllowAllAgent>>
====
